---------------------------- MODULE Spec2Model ----------------------------
(***************************************************************************)
(* A model of the non-mainland route generator (package nchnroutes):       *)
(* the trie extractor, the classifier (FilterRanges), the aggregator and   *)
(* the normalizer.  Addresses are net.IP values, i.e. sequences of bytes   *)
(* (4 for IPv4, 16 for IPv6); math/big integers are a sign and a           *)
(* big-endian magnitude without leading zeros, so that both families keep  *)
(* their real width.  Strings are sequences of UTF-8 bytes.                *)
(***************************************************************************)
EXTENDS Integers, Sequences, FiniteSets, TLC

VARIABLES
    pc,            \* position of the run being modelled
    \* generateConfigs
    ipv4Ranges,    \* the IPv4 ranges returned by ExtractAllRanges
    ipv6Ranges,    \* the IPv6 ranges returned by ExtractAllRanges
    filterDone,    \* the families whose filter goroutine has finished
    filteredIPv4,  \* non-mainland ranges kept by the filter, per family
    filteredIPv6,
    chinaIPv4,     \* mainland ranges collected by the filter, per family
    chinaIPv6,
    statsIPv4,     \* FilterStats, per family
    statsIPv6,
    callIPv4,      \* the call of FilterRangesParallel on the IPv4 ranges
    callIPv6,      \* the call of FilterRangesParallel on the IPv6 ranges
    chinaCIDRs,    \* SaveChinaRoutes: <<mergedIPv4, mergedIPv6>>
    ipv4CIDRs,     \* SmartMergeNonChinaCIDRs: the non-mainland CIDR lists
    ipv6CIDRs,
    \* rustStyleNormalized on its own
    normIn,        \* the aggregated intervals handed in
    normV4,        \* the isIPv4 argument
    normOut,       \* the CIDR list returned
    \* the aggregators and mergers on their own
    aggGiven,      \* the ranges as the caller built the list
    aggIn,         \* the caller's list, which a call may reorder
    aggDone,       \* the calls made so far
    aggV4,         \* their family
    aggOut,        \* the result of rustStyleAggregated
    simpleOut,     \* the result of simpleAggregateDecimalRanges
    aggCIDRs,      \* the result of rustStyleAggregateAndNormalize
    simpleCIDRs,   \* the result of MergeCIDRs
    \* the database held by the extractor
    nodes,         \* the node table of e.data: nodes[n + 1] = <<left, right>>
    labels,        \* the bytes of e.data after the node table
    ipVersion,     \* meta.IPVersion
    v4offset,      \* e.v4offset; the node of the loop while it is computed
    round,         \* the loop counter i of calculateV4Offset
    stack,         \* the calls of the traversal still to run, next one first
    \* generateConfigs and its output files
    extractErr,    \* ExtractAllRanges returned a non-nil error
    files,         \* the output files written so far
    failing,       \* the files whose write the file system rejects
    dirExists,     \* the output directory exists
    mkdirFails,    \* the output directory cannot be created
    outputErrors,  \* the errors collected from the two output goroutines
    exitCode,      \* the exit code of the process, -1 while it runs
    \* FilterRangesParallel
    useParallel,   \* the -parallel flag
    parIn,         \* the ranges handed in
    numCPU,        \* runtime.NumCPU()
    chunks,        \* the chunk <<start, end>> of each worker started
    pending,       \* the workers that have not sent their result yet
    resultChan,    \* the results sent and not yet received, oldest first
    chanClosed,    \* resultChan is closed
    allFiltered,   \* the results collected so far
    allChinaRanges,
    totalStats,
    \* validateConfigs
    valDb,         \* the database file: "missing", "broken" or "ok"
    valFiles,      \* the configuration files to validate, in order
    valResults,    \* the ValidationResult of each file validated so far
    valPassed,     \* what validateConfigFile returned for each of them
    \* the coverage tool
    gapIn,         \* the ranges handed to findIPv4Gaps
    gapOut,        \* the gaps it returned
    \* MergeCIDRs of the pairwise merger
    pairIn,        \* the CIDR blocks handed in
    pairOut        \* the blocks returned

pipeVars == <<ipv4Ranges, ipv6Ranges, filterDone, filteredIPv4, filteredIPv6,
              chinaIPv4, chinaIPv6, statsIPv4, statsIPv6, callIPv4, callIPv6, chinaCIDRs,
              ipv4CIDRs, ipv6CIDRs>>

normVars == <<normIn, normV4, normOut>>

aggVars == <<aggGiven, aggIn, aggDone, aggV4, aggOut, simpleOut, aggCIDRs, simpleCIDRs>>

dbVars == <<nodes, labels, ipVersion, v4offset, round, stack>>

mainVars == <<extractErr, files, failing, dirExists, mkdirFails, outputErrors, exitCode>>

parVars == <<useParallel, parIn, numCPU, chunks, pending, resultChan, chanClosed,
             allFiltered, allChinaRanges, totalStats>>

toolVars == <<valDb, valFiles, valResults, valPassed, gapIn, gapOut, pairIn, pairOut>>

vars == <<pc, pipeVars, normVars, aggVars, dbVars, mainVars, parVars, toolVars>>

(***************************************************************************)
(* Bytes and byte sequences.                                               *)
(***************************************************************************)
Pow2(n) == 2^n

Max(a, b) == IF a >= b THEN a ELSE b

Min(a, b) == IF a <= b THEN a ELSE b

Zeros(n) == [i \in 1..n |-> 0]

\* bit i (0 = least significant) of the byte b
ByteBit(b, i) == (b \div Pow2(i)) % 2

\* b1 & b2 on bytes
ByteAnd(b1, b2) ==
    LET Bit(i) == IF ByteBit(b1, i) = 1 /\ ByteBit(b2, i) = 1 THEN Pow2(i) ELSE 0
    IN  Bit(0) + Bit(1) + Bit(2) + Bit(3) + Bit(4) + Bit(5) + Bit(6) + Bit(7)

\* b1 | b2 on bytes
ByteOr(b1, b2) ==
    LET Bit(i) == IF ByteBit(b1, i) = 1 \/ ByteBit(b2, i) = 1 THEN Pow2(i) ELSE 0
    IN  Bit(0) + Bit(1) + Bit(2) + Bit(3) + Bit(4) + Bit(5) + Bit(6) + Bit(7)

\* ^b on a byte
ByteNot(b) == 255 - b

\* number of bits needed to write the byte b (0 for 0)
ByteBitLen(b) ==
    IF b = 0 THEN 0
    ELSE CHOOSE n \in 1..8 : Pow2(n - 1) <= b /\ b < Pow2(n)

RECURSIVE StripZeros(_)
StripZeros(s) ==
    IF Len(s) > 0 /\ Head(s) = 0 THEN StripZeros(Tail(s)) ELSE s

(***************************************************************************)
(* math/big.Int: [neg, abs], abs big-endian without leading zeros.         *)
(***************************************************************************)
\* the i-th base-256 digit of a magnitude, 0 = least significant
Digit(a, i) == IF i < Len(a) THEN a[Len(a) - i] ELSE 0

CmpAbs(a, b) ==
    IF Len(a) # Len(b) THEN (IF Len(a) < Len(b) THEN -1 ELSE 1)
    ELSE IF a = b THEN 0
    ELSE LET i == CHOOSE k \in 1..Len(a) :
                    a[k] # b[k] /\ \A j \in 1..(k - 1) : a[j] = b[j]
         IN  IF a[i] < b[i] THEN -1 ELSE 1

RECURSIVE AddAbsFrom(_, _, _, _, _)
AddAbsFrom(a, b, i, carry, acc) ==
    IF i >= Max(Len(a), Len(b))
    THEN (IF carry > 0 THEN <<carry>> \o acc ELSE acc)
    ELSE LET s == Digit(a, i) + Digit(b, i) + carry
         IN  AddAbsFrom(a, b, i + 1, s \div 256, <<s % 256>> \o acc)

AddAbs(a, b) == AddAbsFrom(a, b, 0, 0, <<>>)

\* a - b for magnitudes with a >= b
RECURSIVE SubAbsFrom(_, _, _, _, _)
SubAbsFrom(a, b, i, borrow, acc) ==
    IF i >= Len(a)
    THEN StripZeros(acc)
    ELSE LET d == Digit(a, i) - Digit(b, i) - borrow
         IN  IF d < 0
             THEN SubAbsFrom(a, b, i + 1, 1, <<d + 256>> \o acc)
             ELSE SubAbsFrom(a, b, i + 1, 0, <<d>> \o acc)

SubAbs(a, b) == SubAbsFrom(a, b, 0, 0, <<>>)

\* big.NewInt(n) for 0 <= n < 256
NewInt(n) == [neg |-> FALSE, abs |-> IF n = 0 THEN <<>> ELSE <<n>>]

\* new(big.Int).SetBytes(b)
SetBytes(b) == [neg |-> FALSE, abs |-> StripZeros(b)]

\* x.Bytes(): the magnitude, big-endian
BigBytes(x) == x.abs

\* x.Cmp(y)
BigCmp(x, y) ==
    IF x.neg # y.neg THEN (IF x.neg THEN -1 ELSE 1)
    ELSE IF x.neg THEN CmpAbs(y.abs, x.abs)
    ELSE CmpAbs(x.abs, y.abs)

BigNeg(x) == IF x.abs = <<>> THEN x ELSE [neg |-> ~x.neg, abs |-> x.abs]

\* x + y
BigAdd(x, y) ==
    IF x.neg = y.neg THEN [neg |-> x.neg, abs |-> AddAbs(x.abs, y.abs)]
    ELSE LET c == CmpAbs(x.abs, y.abs)
         IN  IF c = 0 THEN NewInt(0)
             ELSE IF c > 0 THEN [neg |-> x.neg, abs |-> SubAbs(x.abs, y.abs)]
             ELSE [neg |-> y.neg, abs |-> SubAbs(y.abs, x.abs)]

\* x - y
BigSub(x, y) == BigAdd(x, BigNeg(y))

\* new(big.Int).Lsh(big.NewInt(1), k)
BigLsh1(k) == [neg |-> FALSE, abs |-> <<Pow2(k % 8)>> \o Zeros(k \div 8)]

\* x.BitLen()
BigBitLen(x) ==
    IF x.abs = <<>> THEN 0 ELSE 8 * (Len(x.abs) - 1) + ByteBitLen(x.abs[1])

\* x.Bit(i)
BigBit(x, i) == ByteBit(Digit(x.abs, i \div 8), i % 8)

(***************************************************************************)
(* net.IP, net.IPMask.  The nil slice is the empty sequence.               *)
(***************************************************************************)
v4InV6Prefix == Zeros(10) \o <<255, 255>>

\* ip.To4()
To4(ip) ==
    IF Len(ip) = 4 THEN ip
    ELSE IF Len(ip) = 16 /\ SubSeq(ip, 1, 12) = v4InV6Prefix THEN SubSeq(ip, 13, 16)
    ELSE <<>>

\* ip.To16()
To16(ip) ==
    IF Len(ip) = 4 THEN v4InV6Prefix \o ip
    ELSE IF Len(ip) = 16 THEN ip
    ELSE <<>>

\* net.CIDRMask(ones, bits)
CIDRMask(ones, bits) ==
    [i \in 1..(bits \div 8) |->
        IF ones >= 8 * i THEN 255
        ELSE IF ones <= 8 * (i - 1) THEN 0
        ELSE 256 - Pow2(8 * i - ones)]

\* ip.Mask(mask)
IPMask(ip, mask) ==
    LET m == IF Len(mask) = 16 /\ Len(ip) = 4
                  /\ SubSeq(mask, 1, 12) = [i \in 1..12 |-> 255]
             THEN SubSeq(mask, 13, 16) ELSE mask
        p == IF Len(m) = 4 /\ Len(ip) = 16 /\ SubSeq(ip, 1, 12) = v4InV6Prefix
             THEN SubSeq(ip, 13, 16) ELSE ip
    IN  IF Len(p) # Len(m) THEN <<>>
        ELSE [i \in 1..Len(p) |-> ByteAnd(p[i], m[i])]

(***************************************************************************)
(* The merger: address / integer conversion.                               *)
(***************************************************************************)
\* ipToDecimal (the caller never passes nil)
ipToDecimal(ip) ==
    IF To4(ip) # <<>> THEN SetBytes(To4(ip)) ELSE SetBytes(To16(ip))

\* decimalToIP
decimalToIP(decimal, isV4) ==
    LET bytes == BigBytes(decimal)
        n     == IF isV4 THEN 4 ELSE 16
    IN  IF Len(bytes) <= n THEN Zeros(n - Len(bytes)) \o bytes
        ELSE SubSeq(bytes, Len(bytes) - n + 1, Len(bytes))

\* the value of a call that ends in a run-time panic
Panic == "panic: index out of range"

\* calculateNetworkEndIP: the loop reads network.Mask[i] for every index
\* of network.IP, from the last one down
calculateNetworkEndIP(network) ==
    IF Len(network.Mask) < Len(network.IP) THEN Panic
    ELSE [i \in 1..Len(network.IP) |->
             ByteOr(network.IP[i], ByteNot(network.Mask[i]))]

\* variant: the bit length itself, one more than the logarithm
bigIntLog2BitLen(n) == IF BigCmp(n, NewInt(0)) <= 0 THEN 0 ELSE BigBitLen(n)

\* bigIntLog2
bigIntLog2(n) == IF BigCmp(n, NewInt(0)) <= 0 THEN 0 ELSE BigBitLen(n) - 1

\* variant: odd and even numbers alike are reported as having no
\* trailing zero bit beyond the first
bigIntTrailingZerosShort(n) ==
    IF BigCmp(n, NewInt(0)) = 0 THEN 0
    ELSE IF BigBit(n, 0) = 1 THEN 0 ELSE 1

\* bigIntTrailingZeros: the loop counts the zero bits below the lowest set
\* bit and gives up at 128
bigIntTrailingZeros(n) ==
    IF BigCmp(n, NewInt(0)) = 0 THEN 0
    ELSE IF \E i \in 0..127 : BigBit(n, i) = 1
         THEN CHOOSE i \in 0..127 :
                  BigBit(n, i) = 1 /\ \A j \in 0..(i - 1) : BigBit(n, j) = 0
         ELSE 128

\* createCIDRFromDecimalRange (decimalToIP never returns nil)
createCIDRFromDecimalRange(start, prefixLen, isV4) ==
    LET startIP == decimalToIP(start, isV4)
        bits    == IF isV4 THEN 32 ELSE 128
        mask    == CIDRMask(prefixLen, bits)
        network == [IP |-> IPMask(startIP, mask), Mask |-> mask]
    IN  [Network |-> network, StartIP |-> network.IP,
         EndIP |-> calculateNetworkEndIP(network)]

(***************************************************************************)
(* The normalizer.                                                         *)
(***************************************************************************)
\* net.IPv4zero, the 16-byte form of 0.0.0.0
IPv4zero == v4InV6Prefix \o Zeros(4)

\* net.IPv6zero
IPv6zero == Zeros(16)

\* the whole-space CIDR of the special case: for IPv4 the 16-byte
\* net.IPv4zero meets the 4-byte mask in calculateNetworkEndIP, which
\* panics
FullRangeCIDR(isV4) ==
    LET network == IF isV4 THEN [IP |-> IPv4zero, Mask |-> CIDRMask(0, 32)]
                   ELSE [IP |-> IPv6zero, Mask |-> CIDRMask(0, 128)]
    IN  IF Len(network.Mask) < Len(network.IP) THEN Panic
        ELSE [Network |-> network, StartIP |-> network.IP,
              EndIP |-> calculateNetworkEndIP(network)]

\* the main loop of rustStyleNormalized for one interval
RECURSIVE NormalizeLoop(_, _, _, _)
NormalizeLoop(first, length, isV4, acc) ==
    IF BigCmp(length, NewInt(0)) <= 0 THEN acc
    ELSE LET maxBits  == IF isV4 THEN 32 ELSE 128
             lengthLog2 == bigIntLog2(length)
             firstTrailingZeros ==
                 IF BigCmp(first, NewInt(0)) = 0 THEN maxBits
                 ELSE bigIntTrailingZeros(first)
             minPower == Min(lengthLog2, firstTrailingZeros)
             b        == BigLsh1(minPower)
             cidr     == createCIDRFromDecimalRange(first, maxBits - minPower, isV4)
         IN  NormalizeLoop(BigAdd(first, b), BigSub(length, b), isV4,
                           Append(acc, cidr))

\* rustStyleNormalized
RECURSIVE NormalizedFrom(_, _, _, _)
NormalizedFrom(ranges, i, isV4, acc) ==
    IF i > Len(ranges) THEN acc
    ELSE LET first  == ranges[i].First
             length == BigAdd(BigSub(ranges[i].Last, ranges[i].First), NewInt(1))
         IN  IF BigCmp(first, NewInt(0)) = 0 /\ BigCmp(length, NewInt(0)) = 0
             THEN IF isV4 THEN FullRangeCIDR(isV4)   \* the panic ends the call
                  ELSE Append(acc, FullRangeCIDR(isV4))
             ELSE NormalizedFrom(ranges, i + 1, isV4,
                                 NormalizeLoop(first, length, isV4, acc))

rustStyleNormalized(ranges, isV4) == NormalizedFrom(ranges, 1, isV4, <<>>)

\* DecimalRange{First, Last, IsIPv4}
DecimalRange(first, last, isV4) == [First |-> first, Last |-> last, IsIPv4 |-> isV4]

\* compareIPs
compareIPs(ip1, ip2) ==
    LET a == IF Len(ip1) # Len(ip2) THEN To16(ip1) ELSE ip1
        b == IF Len(ip1) # Len(ip2) THEN To16(ip2) ELSE ip2
    IN  IF \A i \in 1..Len(a) : a[i] = b[i] THEN 0
        ELSE LET k == CHOOSE i \in 1..Len(a) :
                        a[i] # b[i] /\ \A j \in 1..(i - 1) : a[j] = b[j]
             IN  IF a[k] < b[k] THEN -1 ELSE 1

\* isIPv4
isIPv4(ip) == To4(ip) # <<>>

(***************************************************************************)
(* sort.Slice: the elements of s in ascending order of less.  Elements     *)
(* that compare equal keep their order here; the aggregators give the      *)
(* same result for either order of two ranges with one first address.      *)
(***************************************************************************)
\* sort.Slice(ranges, compareIPs(ranges[i].StartIP, ranges[j].StartIP) < 0)
RECURSIVE InsertByStartIP(_, _)
InsertByStartIP(s, x) ==
    IF s = <<>> THEN <<x>>
    ELSE IF compareIPs(x.StartIP, Head(s).StartIP) < 0 THEN <<x>> \o s
    ELSE <<Head(s)>> \o InsertByStartIP(Tail(s), x)

\* variant: the ranges are left in the caller's order
SortByStartIPNone(s) == s

RECURSIVE SortByStartIP(_)
SortByStartIP(s) ==
    IF s = <<>> THEN <<>>
    ELSE InsertByStartIP(SortByStartIP(SubSeq(s, 1, Len(s) - 1)), s[Len(s)])

\* sort.Slice(ranges, ranges[i].First.Cmp(ranges[j].First) < 0)
RECURSIVE InsertByFirst(_, _)
InsertByFirst(s, x) ==
    IF s = <<>> THEN <<x>>
    ELSE IF BigCmp(x.First, Head(s).First) < 0 THEN <<x>> \o s
    ELSE <<Head(s)>> \o InsertByFirst(Tail(s), x)

RECURSIVE SortByFirst(_)
SortByFirst(s) ==
    IF s = <<>> THEN <<>>
    ELSE InsertByFirst(SortByFirst(SubSeq(s, 1, Len(s) - 1)), s[Len(s)])

(***************************************************************************)
(* The aggregators.                                                        *)
(***************************************************************************)
\* variant: the merge test never succeeds, every range opens an interval
RustMergeFromApart(decimalPairs, i, lastRange, acc) ==
    Append(acc, lastRange) \o SubSeq(decimalPairs, i, Len(decimalPairs))

\* the merge pass of rustStyleAggregated over decimalPairs[i..]
RECURSIVE RustMergeFrom(_, _, _, _)
RustMergeFrom(decimalPairs, i, lastRange, acc) ==
    IF i > Len(decimalPairs) THEN Append(acc, lastRange)
    ELSE LET currentRange == decimalPairs[i]
             one       == NewInt(1)
             maxFirst  == IF BigCmp(currentRange.First, one) < 0 THEN one
                          ELSE currentRange.First
             condition == BigSub(maxFirst, one)
         IN  IF BigCmp(condition, lastRange.Last) <= 0
             THEN RustMergeFrom(decimalPairs, i + 1,
                      IF BigCmp(currentRange.Last, lastRange.Last) > 0
                      THEN [lastRange EXCEPT !.Last = currentRange.Last]
                      ELSE lastRange,
                      acc)
             ELSE RustMergeFrom(decimalPairs, i + 1, currentRange,
                                Append(acc, lastRange))

\* rustStyleAggregated (ipToDecimal never returns nil here)
rustStyleAggregated(ranges, isV4) ==
    IF Len(ranges) = 0 THEN <<>>
    ELSE LET sorted == SortByStartIP(ranges)
             decimalPairs ==
                 [i \in 1..Len(sorted) |->
                     DecimalRange(ipToDecimal(sorted[i].StartIP),
                                  ipToDecimal(sorted[i].EndIP), isV4)]
         IN  RustMergeFrom(decimalPairs, 2, decimalPairs[1], <<>>)

\* rustStyleAggregateAndNormalize
rustStyleAggregateAndNormalize(ranges, isV4) ==
    IF Len(ranges) = 0 THEN <<>>
    ELSE rustStyleNormalized(rustStyleAggregated(ranges, isV4), isV4)

\* the merge pass of simpleAggregateDecimalRanges over ranges[i..]
RECURSIVE SimpleMergeFrom(_, _, _, _)
SimpleMergeFrom(ranges, i, current, acc) ==
    IF i > Len(ranges) THEN Append(acc, current)
    ELSE LET next == ranges[i]
             currentLastPlusOne == BigAdd(current.Last, NewInt(1))
         IN  IF BigCmp(next.First, currentLastPlusOne) <= 0
             THEN SimpleMergeFrom(ranges, i + 1,
                      IF BigCmp(next.Last, current.Last) > 0
                      THEN [current EXCEPT !.Last = next.Last]
                      ELSE current,
                      acc)
             ELSE SimpleMergeFrom(ranges, i + 1, next, Append(acc, current))

\* simpleAggregateDecimalRanges
simpleAggregateDecimalRanges(ranges) ==
    IF Len(ranges) = 0 THEN ranges
    ELSE LET sorted == SortByFirst(ranges)
         IN  SimpleMergeFrom(sorted, 2, sorted[1], <<>>)

\* MergeCIDRs
MergeCIDRs(cidrs) ==
    IF Len(cidrs) = 0 THEN cidrs
    ELSE LET ranges ==
                 [i \in 1..Len(cidrs) |->
                     DecimalRange(ipToDecimal(cidrs[i].StartIP),
                                  ipToDecimal(cidrs[i].EndIP),
                                  isIPv4(cidrs[i].StartIP))]
             aggregated == simpleAggregateDecimalRanges(ranges)
         IN  rustStyleNormalized(aggregated, aggregated[1].IsIPv4)

\* RangesToCIDRs: r.CIDR is the text "<ip>/<prefixLen>" written by
\* pathToCIDR, kept here as the pair it parses back to
RangesToCIDRs(ranges) ==
    [i \in 1..Len(ranges) |->
        LET r    == ranges[i]
            mask == CIDRMask(r.CIDR.PrefixLen, 8 * Len(r.CIDR.IP))
        IN  [Network |-> [IP |-> IPMask(r.CIDR.IP, mask), Mask |-> mask],
             StartIP |-> r.StartIP, EndIP |-> r.EndIP]]

\* SmartMergeNonChinaCIDRs
SmartMergeNonChinaCIDRs(allIPv4, allIPv6, nonChinaIPv4, nonChinaIPv6) ==
    <<rustStyleAggregateAndNormalize(nonChinaIPv4, TRUE),
      rustStyleAggregateAndNormalize(nonChinaIPv6, FALSE)>>

(***************************************************************************)
(* Strings are sequences of UTF-8 bytes.                                   *)
(***************************************************************************)
\* strings.Contains(s, substr)
Contains(s, substr) ==
    \E i \in 1..(Len(s) - Len(substr) + 1) :
        SubSeq(s, i, i + Len(substr) - 1) = substr

StrZhongguo == <<228, 184, 173, 229, 155, 189>>       \* "中国"

StrCN == <<67, 78>>                                    \* "CN"

StrChina == <<67, 104, 105, 110, 97>>                  \* "China"

StrXianggang == <<233, 166, 153, 230, 184, 175>>       \* "香港"

StrHongKong == <<72, 111, 110, 103, 32, 75, 111, 110, 103>>   \* "Hong Kong"

StrAomen == <<230, 190, 179, 233, 151, 168>>           \* "澳门"

StrMacao == <<77, 97, 99, 97, 111>>                    \* "Macao"

StrMacau == <<77, 97, 99, 97, 117>>                    \* "Macau"

StrTaiwanZh == <<229, 143, 176, 230, 185, 190>>        \* "台湾"

StrTaiwan == <<84, 97, 105, 119, 97, 110>>             \* "Taiwan"

(***************************************************************************)
(* The classifier.                                                         *)
(***************************************************************************)
countryName(info) == info[1]

regionName(info) == IF Len(info) > 1 THEN info[2] ELSE <<>>

IsChinaCountry(info) ==
    countryName(info) \in {StrZhongguo, StrCN, StrChina}

\* variant: only the Chinese country name is recognised
IsMainlandChinaZhOnly(info) ==
    IF Len(info) = 0 THEN FALSE
    ELSE countryName(info) = StrZhongguo /\ ~Contains(regionName(info), StrXianggang)

\* IsMainlandChina
IsMainlandChina(info) ==
    IF Len(info) = 0 THEN FALSE
    ELSE IF IsChinaCountry(info)
         THEN ~(\/ Contains(regionName(info), StrXianggang)
                \/ Contains(regionName(info), StrHongKong)
                \/ Contains(regionName(info), StrAomen)
                \/ Contains(regionName(info), StrMacao)
                \/ Contains(regionName(info), StrMacau)
                \/ Contains(regionName(info), StrTaiwanZh)
                \/ Contains(regionName(info), StrTaiwan))
         ELSE FALSE

\* variant: only the Chinese name of the region is recognised
isHongKongZhOnly(info) ==
    IF Len(info) = 0 THEN FALSE
    ELSE IsChinaCountry(info) /\ Contains(regionName(info), StrXianggang)

\* isHongKong
isHongKong(info) ==
    IF Len(info) = 0 THEN FALSE
    ELSE /\ IsChinaCountry(info)
         /\ \/ Contains(regionName(info), StrXianggang)
            \/ Contains(regionName(info), StrHongKong)

\* isMacao
isMacao(info) ==
    IF Len(info) = 0 THEN FALSE
    ELSE /\ IsChinaCountry(info)
         /\ \/ Contains(regionName(info), StrAomen)
            \/ Contains(regionName(info), StrMacao)
            \/ Contains(regionName(info), StrMacau)

\* isTaiwan
isTaiwan(info) ==
    IF Len(info) = 0 THEN FALSE
    ELSE /\ IsChinaCountry(info)
         /\ \/ Contains(regionName(info), StrTaiwanZh)
            \/ Contains(regionName(info), StrTaiwan)

\* ip.IsLoopback()
IsLoopback(ip) ==
    IF To4(ip) # <<>> THEN To4(ip)[1] = 127
    ELSE ip = Zeros(15) \o <<1>>

\* ip.IsUnspecified()
IsUnspecified(ip) ==
    To16(ip) = v4InV6Prefix \o Zeros(4) \/ ip = Zeros(16)

\* variant: of the IPv4 table only the loopback and the zero block are
\* tested
IsPrivateOrReservedLoopbackOnly(startIP, endIP) ==
    IF To4(startIP) # <<>>
    THEN startIP[1] = 127 \/ startIP[1] = 0
    ELSE \/ IsLoopback(startIP)
         \/ startIP[1] = 254 /\ ByteAnd(startIP[2], 192) = 128
         \/ ByteAnd(startIP[1], 254) = 252
         \/ startIP[1] = 255
         \/ IsUnspecified(startIP)

\* IsPrivateOrReserved: only startIP is read
IsPrivateOrReserved(startIP, endIP) ==
    IF To4(startIP) # <<>>
    THEN \/ startIP[1] = 10
         \/ startIP[1] = 172 /\ startIP[2] >= 16 /\ startIP[2] <= 31
         \/ startIP[1] = 192 /\ startIP[2] = 168
         \/ startIP[1] = 127
         \/ startIP[1] = 169 /\ startIP[2] = 254
         \/ startIP[1] >= 224 /\ startIP[1] <= 239
         \/ startIP[1] >= 240
         \/ startIP[1] = 0
    ELSE \/ IsLoopback(startIP)
         \/ startIP[1] = 254 /\ ByteAnd(startIP[2], 192) = 128
         \/ ByteAnd(startIP[1], 254) = 252
         \/ startIP[1] = 255
         \/ IsUnspecified(startIP)

\* FilterStats{TotalRanges: n}
NewFilterStats(n) ==
    [TotalRanges |-> n, ChinaFiltered |-> 0, PrivateFiltered |-> 0,
     HongKongKept |-> 0, MacaoKept |-> 0, TaiwanKept |-> 0, OtherKept |-> 0,
     ChinaCIDRsSaved |-> 0]

\* variant: a mainland range is collected and then falls through to the
\* non-mainland branch as well
FilterStepFallThrough(st, r) ==
    LET collected ==
            IF IsMainlandChina(r.Info) /\ ~IsPrivateOrReserved(r.StartIP, r.EndIP)
            THEN [st EXCEPT !.stats.ChinaFiltered = @ + 1,
                            !.chinaRanges = Append(@, r)]
            ELSE st
    IN  IF IsPrivateOrReserved(r.StartIP, r.EndIP)
        THEN [collected EXCEPT !.stats.PrivateFiltered = @ + 1]
        ELSE [collected EXCEPT !.filtered = Append(@, r)]

\* variant: a reserved range that is not mainland is counted in
\* PrivateFiltered alone
FilterStepReservedFirst(st, r) ==
    IF IsMainlandChina(r.Info)
    THEN [st EXCEPT
            !.stats.ChinaFiltered = @ + 1,
            !.chinaRanges = IF ~IsPrivateOrReserved(r.StartIP, r.EndIP)
                            THEN Append(@, r) ELSE @]
    ELSE IF IsPrivateOrReserved(r.StartIP, r.EndIP)
    THEN [st EXCEPT !.stats.PrivateFiltered = @ + 1]
    ELSE [st EXCEPT !.stats.OtherKept = @ + 1, !.filtered = Append(@, r)]

\* one pass of the loop of FilterRanges, over the range r
FilterStep(st, r) ==
    IF IsMainlandChina(r.Info)
    THEN [st EXCEPT
            !.stats.ChinaFiltered = @ + 1,
            !.chinaRanges = IF ~IsPrivateOrReserved(r.StartIP, r.EndIP)
                            THEN Append(@, r) ELSE @]
    ELSE LET counted ==
                 IF isHongKong(r.Info)
                 THEN [st EXCEPT !.stats.HongKongKept = @ + 1]
                 ELSE IF isMacao(r.Info)
                 THEN [st EXCEPT !.stats.MacaoKept = @ + 1]
                 ELSE IF isTaiwan(r.Info)
                 THEN [st EXCEPT !.stats.TaiwanKept = @ + 1]
                 ELSE [st EXCEPT !.stats.OtherKept = @ + 1]
         IN  IF IsPrivateOrReserved(r.StartIP, r.EndIP)
             THEN [counted EXCEPT !.stats.PrivateFiltered = @ + 1]
             ELSE [counted EXCEPT !.filtered = Append(@, r)]

RECURSIVE FilterFrom(_, _, _)
FilterFrom(ranges, i, st) ==
    IF i > Len(ranges) THEN st
    ELSE FilterFrom(ranges, i + 1, FilterStep(st, ranges[i]))

\* FilterRanges: [filtered, chinaRanges, stats]
FilterRanges(ranges) ==
    LET st == FilterFrom(ranges, 1,
                  [filtered |-> <<>>, chinaRanges |-> <<>>,
                   stats |-> NewFilterStats(Len(ranges))])
    IN  [st EXCEPT !.stats.ChinaCIDRsSaved = Len(st.chinaRanges)]

(***************************************************************************)
(* FilterRangesParallel: the chunks, and the sum of the workers' counters. *)
(***************************************************************************)
\* numWorkers: runtime.NumCPU(), at most one worker per range
NumWorkers(cpus, n) == IF cpus > n THEN n ELSE cpus

\* chunkSize
ChunkSize(n, numWorkers) ==
    IF n \div numWorkers = 0 THEN 1 ELSE n \div numWorkers

\* variant: the last worker's chunk ends like every other chunk
ChunkOfEven(i, numWorkers, chunkSize, n) ==
    <<i * chunkSize, i * chunkSize + chunkSize>>

\* the chunk ranges[start:end] of worker i (counted from 0)
ChunkOf(i, numWorkers, chunkSize, n) ==
    <<i * chunkSize, IF i = numWorkers - 1 THEN n ELSE i * chunkSize + chunkSize>>

\* the body of a worker: FilterRanges on its chunk
WorkerResult(ranges, chunk) ==
    LET part == SubSeq(ranges, chunk[1] + 1, chunk[2])
        res  == FilterRanges(part)
    IN  [res EXCEPT !.stats.TotalRanges = Len(part)]

\* one round of the collecting loop
CollectStats(total, stats) ==
    [total EXCEPT !.ChinaFiltered = @ + stats.ChinaFiltered,
                  !.PrivateFiltered = @ + stats.PrivateFiltered,
                  !.HongKongKept = @ + stats.HongKongKept,
                  !.MacaoKept = @ + stats.MacaoKept,
                  !.TaiwanKept = @ + stats.TaiwanKept,
                  !.OtherKept = @ + stats.OtherKept,
                  !.ChinaCIDRsSaved = @ + stats.ChinaCIDRsSaved]

\* variant: a channel that holds one result
ChanCapOne(numWorkers) == 1

\* make(chan result, numWorkers): the capacity of resultChan
ChanCap(numWorkers) == numWorkers

\* no call of FilterRangesParallel under way in a goroutine of
\* generateConfigs
CallIdle ==
    [phase |-> "idle", chunks |-> <<>>, pending |-> {}, resultChan |-> <<>>,
     chanClosed |-> FALSE, allFiltered |-> <<>>, allChinaRanges |-> <<>>,
     totalStats |-> NewFilterStats(0)]

\* the filter of one family has returned these values
CallReturned(filtered, chinaRanges, stats) ==
    [CallIdle EXCEPT !.phase = "returned", !.allFiltered = filtered,
                     !.allChinaRanges = chinaRanges, !.totalStats = stats]

\* the most CPUs of the machine
MaxCPU == 3

\* the shortest list generateConfigs does not filter in parallel
ParallelThreshold == 1000

\* the filter of one family in generateConfigs, a step at a time: what
\* the goroutine, the workers it started and their closer can do next.
\* FilterRanges returns in one step. FilterRangesParallel, called with
\* -parallel on a list longer than the threshold, starts its workers;
\* then a worker sends its result while the channel has room, the closer
\* closes the channel after the last send, the loop receives a result,
\* and the call returns from the closed, drained channel
FilterCallSteps(call, ranges) ==
    IF call.phase = "idle"
    THEN IF useParallel /\ Len(ranges) > ParallelThreshold
         THEN IF Len(ranges) = 0
              THEN { CallReturned(ranges, <<>>, NewFilterStats(0)) }
              ELSE LET numWorkers == NumWorkers(numCPU, Len(ranges))
                       chunkSize  == ChunkSize(Len(ranges), numWorkers)
                   IN  { [CallIdle EXCEPT
                            !.phase = "collect",
                            !.chunks = [i \in 1..numWorkers |->
                                ChunkOf(i - 1, numWorkers, chunkSize, Len(ranges))],
                            !.pending = 1..numWorkers,
                            !.totalStats = NewFilterStats(Len(ranges))] }
         ELSE LET res == FilterRanges(ranges)
              IN  { CallReturned(res.filtered, res.chinaRanges, res.stats) }
    ELSE LET sends ==
                 IF Len(call.resultChan) < ChanCap(Len(call.chunks))
                 THEN { [call EXCEPT
                           !.resultChan = Append(@, WorkerResult(ranges, call.chunks[i])),
                           !.pending = @ \ {i}] : i \in call.pending }
                 ELSE {}
             closes ==
                 IF call.pending = {} /\ ~call.chanClosed
                 THEN { [call EXCEPT !.chanClosed = TRUE] }
                 ELSE {}
             collects ==
                 IF call.resultChan # <<>>
                 THEN LET res == Head(call.resultChan)
                      IN  { [call EXCEPT
                               !.allFiltered = @ \o res.filtered,
                               !.allChinaRanges = @ \o res.chinaRanges,
                               !.totalStats = CollectStats(@, res.stats),
                               !.resultChan = Tail(@)] }
                 ELSE {}
             returns ==
                 IF call.chanClosed /\ call.resultChan = <<>>
                 THEN { [call EXCEPT !.phase = "returned"] }
                 ELSE {}
         IN  sends \cup closes \cup collects \cup returns

(***************************************************************************)
(* The extractor: from a bit path to the range of a leaf.                  *)
(***************************************************************************)
\* the address whose leading bits are path, the rest zero
PathIP(path, nbytes) ==
    [b \in 1..nbytes |->
        LET BitAt(k) == IF 8 * (b - 1) + k <= Len(path)
                           /\ path[8 * (b - 1) + k] = 1
                        THEN Pow2(8 - k) ELSE 0
        IN  BitAt(1) + BitAt(2) + BitAt(3) + BitAt(4)
            + BitAt(5) + BitAt(6) + BitAt(7) + BitAt(8)]

\* variant: the host bits are set from the bit after prefixLen on, so the
\* first host bit stays clear
calculateEndIPSkipBit(startIP, prefixLen, isV4) ==
    [b \in 1..Len(startIP) |->
        LET HostBit(k) == IF 8 * (b - 1) + k > prefixLen + 1
                          THEN Pow2(8 - k) ELSE 0
        IN  ByteOr(startIP[b],
                   HostBit(1) + HostBit(2) + HostBit(3) + HostBit(4)
                   + HostBit(5) + HostBit(6) + HostBit(7) + HostBit(8))]

\* calculateEndIP
calculateEndIP(startIP, prefixLen, isV4) ==
    LET totalBits == IF isV4 THEN 32 ELSE 128
    IN  IF totalBits - prefixLen = 0 THEN startIP
        ELSE [b \in 1..Len(startIP) |->
                LET HostBit(k) == IF 8 * (b - 1) + k > prefixLen
                                  THEN Pow2(8 - k) ELSE 0
                IN  ByteOr(startIP[b],
                           HostBit(1) + HostBit(2) + HostBit(3) + HostBit(4)
                           + HostBit(5) + HostBit(6) + HostBit(7) + HostBit(8))]

\* pathToCIDR: [cidr, startIP, endIP]
pathToCIDR(path, isV4) ==
    LET ip == PathIP(path, IF isV4 THEN 4 ELSE 16)
    IN  [cidr    |-> [IP |-> ip, PrefixLen |-> Len(path)],
         startIP |-> ip,
         endIP   |-> calculateEndIP(ip, Len(path), isV4)]

\* the IPRange a traversal appends for a leaf reached by path
LeafRange(path, isV4, info) ==
    LET c == pathToCIDR(path, isV4)
    IN  [CIDR |-> c.cidr, StartIP |-> c.startIP, EndIP |-> c.endIP,
         Info |-> info, Type |-> IF isV4 THEN "IPv4" ELSE "IPv6"]

\* e.nodeCount: the node table fills the first 8 * nodeCount bytes
nodeCount == Len(nodes)

\* readNode: the big-endian pointer at byte node*8 + index*4
readNode(node, index) == nodes[node + 1][index + 1]

\* strings.Split(str, "\t")
RECURSIVE SplitFrom(_, _, _, _)
SplitFrom(str, i, field, acc) ==
    IF i > Len(str) THEN Append(acc, field)
    ELSE IF str[i] = 9 THEN SplitFrom(str, i + 1, <<>>, Append(acc, field))
    ELSE SplitFrom(str, i + 1, Append(field, str[i]), acc)

Split(str) == SplitFrom(str, 1, <<>>, <<>>)

\* resolve: the label a leaf pointer names, or an error when the pointer
\* or the label's length reaches past the data
resolve(node) ==
    LET off == node - nodeCount
    IN  IF off >= Len(labels) THEN [err |-> TRUE, bytes |-> <<>>]
        ELSE LET size == 256 * labels[off + 1] + labels[off + 2]
             IN  IF off + 2 + size > Len(labels) THEN [err |-> TRUE, bytes |-> <<>>]
                 ELSE [err |-> FALSE, bytes |-> SubSeq(labels, off + 3, off + 2 + size)]

\* variant: the sixteen bits after the eighty zeros are tested for 0
isIPv4MappedPathZeros(path) ==
    IF Len(path) < 96 THEN FALSE
    ELSE /\ \A i \in 1..80 : path[i] = 0
         /\ \A i \in 81..96 : path[i] = 0

\* isIPv4MappedPath
isIPv4MappedPath(path) ==
    IF Len(path) < 96 THEN FALSE
    ELSE /\ \A i \in 1..80 : path[i] = 0
         /\ \A i \in 81..96 : path[i] = 1

\* a call traverse...(node, path, ranges) that is still to run
Call(node, path) == [node |-> node, path |-> path]

\* the calls an inner node makes, the left child's first; a child pointer
\* of 0 is not followed
ChildCalls(node, path) ==
    LET leftNode  == readNode(node, 0)
        rightNode == readNode(node, 1)
    IN  (IF leftNode # 0 THEN <<Call(leftNode, Append(path, 0))>> ELSE <<>>)
        \o (IF rightNode # 0 THEN <<Call(rightNode, Append(path, 1))>> ELSE <<>>)

\* one activation of traverseIPv4Node, up to its recursive calls: the
\* ranges it leaves and the calls it makes
traverseIPv4Node(node, path, ranges) ==
    IF node >= nodeCount
    THEN LET res == resolve(node)
         IN  [ranges |-> IF res.err THEN ranges
                         ELSE Append(ranges, LeafRange(path, TRUE, Split(res.bytes))),
              calls |-> <<>>]
    ELSE [ranges |-> ranges, calls |-> ChildCalls(node, path)]

\* one activation of traverseIPv6NodeFromRoot, up to its recursive calls
traverseIPv6NodeFromRoot(node, path, ranges) ==
    IF Len(path) = 96 /\ isIPv4MappedPath(path)
    THEN [ranges |-> ranges, calls |-> <<>>]
    ELSE IF node >= nodeCount
    THEN LET res == resolve(node)
         IN  [ranges |-> IF isIPv4MappedPath(path) \/ res.err THEN ranges
                         ELSE Append(ranges, LeafRange(path, FALSE, Split(res.bytes))),
              calls |-> <<>>]
    ELSE [ranges |-> ranges, calls |-> ChildCalls(node, path)]

(***************************************************************************)
(* The inputs of the runs: what ExtractAllRanges can return.               *)
(***************************************************************************)
\* the first n bits of the address ip
PathOf(ip, n) == [k \in 1..n |-> ByteBit(ip[((k - 1) \div 8) + 1], 7 - ((k - 1) % 8))]

StrBeijing == <<66, 101, 105, 106, 105, 110, 103>>     \* "Beijing"

StrUSA == <<85, 83, 65>>                               \* "USA"

\* leaf labels, split on tabs
InfoMainland == <<StrChina, StrBeijing>>

InfoUSA == <<StrUSA>>

\* IPv4 leaves in ascending order of first address, a block before the
\* blocks inside it
V4Leaves ==
    << PathOf(<<0, 0, 0, 0>>, 0),      \* 0.0.0.0/0
       PathOf(<<1, 0, 0, 0>>, 24),     \* 1.0.0.0/24
       PathOf(<<1, 0, 1, 0>>, 24),     \* 1.0.1.0/24
       PathOf(<<1, 0, 3, 0>>, 24),     \* 1.0.3.0/24
       PathOf(<<8, 0, 0, 0>>, 6),      \* 8.0.0.0/6
       PathOf(<<8, 0, 0, 0>>, 8),      \* 8.0.0.0/8
       PathOf(<<9, 0, 0, 0>>, 8),      \* 9.0.0.0/8
       PathOf(<<10, 0, 0, 0>>, 8)      \* 10.0.0.0/8
    >>

\* IPv6 leaves, in the same order; none lies below ::ffff:0:0/96
V6Leaves ==
    << PathOf(Zeros(16), 0),                            \* ::/0
       PathOf(Zeros(10) \o <<128>> \o Zeros(5), 81),    \* ::8000:0:0/81
       PathOf(<<32, 1, 13, 184>> \o Zeros(12), 32),     \* 2001:db8::/32
       PathOf(<<32, 1, 13, 185>> \o Zeros(12), 32),     \* 2001:db9::/32
       PathOf(<<254, 128>> \o Zeros(14), 10)            \* fe80::/10
    >>

IsPrefix(p, q) == Len(p) <= Len(q) /\ SubSeq(q, 1, Len(p)) = p

\* the leaves of a trie: no path is a prefix of another
DisjointPaths(p, q) == ~IsPrefix(p, q) /\ ~IsPrefix(q, p)

\* ascending selections of at most n pairwise disjoint leaves
LeafChoices(leaves, n) ==
    { c \in UNION { [1..k -> 1..Len(leaves)] : k \in 0..n } :
        \A i, j \in DOMAIN c :
            i < j => c[i] < c[j] /\ DisjointPaths(leaves[c[i]], leaves[c[j]]) }

\* the labelled range lists over those selections
RangeLists(leaves, isV4, infos, n) ==
    UNION { { [i \in DOMAIN c |-> LeafRange(leaves[c[i]], isV4, lab[i])] :
                lab \in [DOMAIN c -> infos] } :
            c \in LeafChoices(leaves, n) }

(***************************************************************************)
(* generateConfigs: filter both families, save the mainland routes, merge  *)
(* the non-mainland ranges.                                                *)
(***************************************************************************)
\* the most leaves a database holds
MaxRanges == 3

PipeInfos == {InfoMainland, InfoUSA}

V4RangeLists == RangeLists(V4Leaves, TRUE, PipeInfos, MaxRanges)

V6RangeLists == RangeLists(V6Leaves, FALSE, PipeInfos, MaxRanges)

\* the 96 bits calculateV4Offset walks from the root: ::ffff:0:0/96
MappedPath == PathOf(v4InV6Prefix \o Zeros(4), 96)

\* the two lists come from one trie: the IPv4 traversal starts at the
\* node calculateV4Offset stops at, so when a leaf lies on the path to
\* ::ffff:0:0/96 the walk ends on that leaf, and the IPv4 list of a
\* database with IPv4 is that leaf alone, as 0.0.0.0/0
OneDatabase(v4Ranges, v6Ranges) ==
    \A i \in DOMAIN v6Ranges :
        IsPrefix(PathOf(v6Ranges[i].StartIP, v6Ranges[i].CIDR.PrefixLen), MappedPath)
            => \/ v4Ranges = <<>>
               \/ v4Ranges = <<LeafRange(<<>>, TRUE, v6Ranges[i].Info)>>

PipeIdle ==
    /\ ipv4Ranges = <<>> /\ ipv6Ranges = <<>> /\ filterDone = {}
    /\ filteredIPv4 = <<>> /\ filteredIPv6 = <<>>
    /\ chinaIPv4 = <<>> /\ chinaIPv6 = <<>>
    /\ statsIPv4 = NewFilterStats(0) /\ statsIPv6 = NewFilterStats(0)
    /\ chinaCIDRs = <<>> /\ ipv4CIDRs = <<>> /\ ipv6CIDRs = <<>>
    /\ callIPv4 = CallIdle /\ callIPv6 = CallIdle

NormIdle == normIn = <<>> /\ normV4 = TRUE /\ normOut = <<>>

AggIdle ==
    /\ aggGiven = <<>> /\ aggIn = <<>> /\ aggDone = {} /\ aggV4 = TRUE /\ aggOut = <<>> /\ simpleOut = <<>>
    /\ aggCIDRs = <<>> /\ simpleCIDRs = <<>>

DbIdle ==
    /\ nodes = <<>> /\ labels = <<>> /\ ipVersion = 0 /\ v4offset = 0
    /\ round = 0 /\ stack = <<>>

\* nothing written yet, into a directory that is there and takes every file
MainIdle ==
    /\ extractErr = FALSE /\ files = {} /\ failing = {} /\ dirExists = TRUE
    /\ mkdirFails = FALSE /\ outputErrors = <<>> /\ exitCode = -1

ToolIdle ==
    /\ valDb = "ok" /\ valFiles = <<>> /\ valResults = <<>> /\ valPassed = <<>>
    /\ gapIn = <<>> /\ gapOut = <<>> /\ pairIn = <<>> /\ pairOut = <<>>

\* no call of FilterRangesParallel under way
ParQuiet ==
    /\ parIn = <<>> /\ chunks = <<>> /\ pending = {}
    /\ resultChan = <<>> /\ chanClosed = FALSE
    /\ allFiltered = <<>> /\ allChinaRanges = <<>> /\ totalStats = NewFilterStats(0)

\* a run without -parallel
ParIdle == ParQuiet /\ useParallel = FALSE /\ numCPU = 1

Init ==
    /\ pc = "filter"
    /\ ipv4Ranges \in V4RangeLists
    /\ ipv6Ranges \in V6RangeLists
    /\ Len(ipv4Ranges) + Len(ipv6Ranges) <= MaxRanges
    /\ OneDatabase(ipv4Ranges, ipv6Ranges)
    /\ filterDone = {}
    /\ filteredIPv4 = <<>> /\ filteredIPv6 = <<>>
    /\ chinaIPv4 = <<>> /\ chinaIPv6 = <<>>
    /\ statsIPv4 = NewFilterStats(0) /\ statsIPv6 = NewFilterStats(0)
    /\ chinaCIDRs = <<>> /\ ipv4CIDRs = <<>> /\ ipv6CIDRs = <<>>
    /\ callIPv4 = CallIdle /\ callIPv6 = CallIdle
    /\ NormIdle /\ AggIdle /\ DbIdle /\ MainIdle /\ ToolIdle /\ ParQuiet
    /\ useParallel \in BOOLEAN
    /\ numCPU \in IF useParallel THEN 1..MaxCPU ELSE {1}

\* the goroutine filtering the IPv4 ranges takes a step: FilterRanges, or
\* a step of its call of FilterRangesParallel; the results are assigned
\* when the call returns
FilterIPv4 ==
    /\ pc = "filter" /\ "IPv4" \notin filterDone
    /\ \E nxt \in FilterCallSteps(callIPv4, ipv4Ranges) :
           IF nxt.phase = "returned"
           THEN /\ filteredIPv4' = nxt.allFiltered
                /\ chinaIPv4' = nxt.allChinaRanges
                /\ statsIPv4' = nxt.totalStats
                /\ filterDone' = filterDone \cup {"IPv4"}
                /\ callIPv4' = CallIdle
           ELSE /\ callIPv4' = nxt
                /\ UNCHANGED <<filteredIPv4, chinaIPv4, statsIPv4, filterDone>>
    /\ UNCHANGED <<pc, ipv4Ranges, ipv6Ranges, filteredIPv6, chinaIPv6,
                   statsIPv6, callIPv6, chinaCIDRs, ipv4CIDRs, ipv6CIDRs,
                   normVars, aggVars, dbVars, mainVars, toolVars, parVars>>

\* the goroutine filtering the IPv6 ranges (the caller itself when there
\* are none) takes a step
FilterIPv6 ==
    /\ pc = "filter" /\ "IPv6" \notin filterDone
    /\ \E nxt \in FilterCallSteps(callIPv6, ipv6Ranges) :
           IF nxt.phase = "returned"
           THEN /\ filteredIPv6' = nxt.allFiltered
                /\ chinaIPv6' = nxt.allChinaRanges
                /\ statsIPv6' = nxt.totalStats
                /\ filterDone' = filterDone \cup {"IPv6"}
                /\ callIPv6' = CallIdle
           ELSE /\ callIPv6' = nxt
                /\ UNCHANGED <<filteredIPv6, chinaIPv6, statsIPv6, filterDone>>
    /\ UNCHANGED <<pc, ipv4Ranges, ipv6Ranges, filteredIPv4, chinaIPv4,
                   statsIPv4, callIPv4, chinaCIDRs, ipv4CIDRs, ipv6CIDRs,
                   normVars, aggVars, dbVars, mainVars, toolVars, parVars>>

\* os.WriteFile into the output directory: the file is written when the
\* directory is there and the file system takes the file
WriteFile(name) == dirExists /\ name \notin failing

\* the files SaveChinaRoutes writes: the IPv4 file when there are merged
\* IPv4 routes, and the IPv6 file when there are merged IPv6 routes and
\* the IPv4 file has not failed
SavedRouteFiles(mergedIPv4, mergedIPv6) ==
    LET v4Failed == mergedIPv4 # <<>> /\ ~WriteFile("chnroute-ipv4.txt")
    IN  (IF mergedIPv4 # <<>> /\ ~v4Failed THEN {"chnroute-ipv4.txt"} ELSE {})
        \cup
        (IF mergedIPv6 # <<>> /\ ~v4Failed /\ WriteFile("chnroute-ipv6.txt")
         THEN {"chnroute-ipv6.txt"} ELSE {})

\* wg.Wait(), then SaveChinaRoutes: the mainland ranges of each family
\* are converted, merged and saved; an error is printed as a warning and
\* the run goes on
SaveChinaRoutes ==
    /\ pc = "filter" /\ filterDone = {"IPv4", "IPv6"}
    /\ LET mergedIPv4 == MergeCIDRs(RangesToCIDRs(chinaIPv4))
           mergedIPv6 == MergeCIDRs(RangesToCIDRs(chinaIPv6))
       IN  /\ chinaCIDRs' = <<mergedIPv4, mergedIPv6>>
           /\ files' = files \cup SavedRouteFiles(mergedIPv4, mergedIPv6)
    /\ pc' = "merge"
    /\ UNCHANGED <<ipv4Ranges, ipv6Ranges, filterDone, filteredIPv4,
                   filteredIPv6, chinaIPv4, chinaIPv6, statsIPv4, statsIPv6, callIPv4, callIPv6,
                   ipv4CIDRs, ipv6CIDRs, normVars, aggVars, dbVars, parVars, toolVars,
                   extractErr, failing, dirExists, mkdirFails, outputErrors,
                   exitCode>>

\* the call of SmartMergeNonChinaCIDRs; rustStyleAggregated sorts the
\* slice it is handed, which is the caller's filtered list
SmartMerge ==
    /\ pc = "merge"
    /\ LET merged == SmartMergeNonChinaCIDRs(ipv4Ranges, ipv6Ranges,
                                             filteredIPv4, filteredIPv6)
       IN  ipv4CIDRs' = merged[1] /\ ipv6CIDRs' = merged[2]
    /\ filteredIPv4' = SortByStartIP(filteredIPv4)
    /\ filteredIPv6' = SortByStartIP(filteredIPv6)
    /\ pc' = "output"
    /\ UNCHANGED <<ipv4Ranges, ipv6Ranges, filterDone,
                   chinaIPv4, chinaIPv6, statsIPv4, statsIPv6, callIPv4, callIPv6,
                   chinaCIDRs, normVars, aggVars, dbVars, mainVars, toolVars, parVars>>

Next == FilterIPv4 \/ FilterIPv6 \/ SaveChinaRoutes \/ SmartMerge

Spec == Init /\ [][Next]_vars

(***************************************************************************)
(* generateConfigs to its end: the output directory, the two routing rule  *)
(* files and the exit code.                                                *)
(***************************************************************************)
\* the most ranges of the database of such a run
MaxEmitLen == 2

EmitV4Lists ==
    RangeLists(<<PathOf(<<1, 0, 0, 0>>, 24), PathOf(<<1, 0, 1, 0>>, 24),
                 PathOf(<<9, 0, 0, 0>>, 8)>>, TRUE, PipeInfos, MaxEmitLen)

EmitV6Lists ==
    RangeLists(<<PathOf(<<32, 1, 13, 184>> \o Zeros(12), 32)>>, FALSE,
               PipeInfos, 1)

OutputFiles ==
    {"chnroute-ipv4.txt", "chnroute-ipv6.txt", "bird_v4.conf", "bird_v6.conf"}

\* a run into a directory that may be missing, on a file system that may
\* reject some of the files
EmitInit ==
    /\ pc = "filter"
    /\ ipv4Ranges \in EmitV4Lists
    /\ ipv6Ranges \in EmitV6Lists
    /\ filterDone = {}
    /\ filteredIPv4 = <<>> /\ filteredIPv6 = <<>>
    /\ chinaIPv4 = <<>> /\ chinaIPv6 = <<>>
    /\ statsIPv4 = NewFilterStats(0) /\ statsIPv6 = NewFilterStats(0)
    /\ chinaCIDRs = <<>> /\ ipv4CIDRs = <<>> /\ ipv6CIDRs = <<>>
    /\ callIPv4 = CallIdle /\ callIPv6 = CallIdle
    /\ NormIdle /\ AggIdle /\ DbIdle /\ ParIdle /\ ToolIdle
    /\ extractErr = FALSE /\ files = {} /\ outputErrors = <<>> /\ exitCode = -1
    /\ failing \in SUBSET OutputFiles
    /\ dirExists \in BOOLEAN
    /\ mkdirFails \in IF dirExists THEN {FALSE} ELSE BOOLEAN

\* os.MkdirAll(outputDir): log.Fatalf when the directory cannot be made
MkdirAll ==
    /\ pc = "output"
    /\ IF ~dirExists /\ mkdirFails
       THEN pc' = "exited" /\ exitCode' = 1 /\ UNCHANGED dirExists
       ELSE pc' = "emit" /\ dirExists' = TRUE /\ UNCHANGED exitCode
    /\ UNCHANGED <<pipeVars, normVars, aggVars, dbVars, parVars, toolVars, extractErr,
                   files, failing, mkdirFails, outputErrors>>

\* the goroutine of a family has returned
OutputDone(family, name) ==
    name \in files \/ \E i \in DOMAIN outputErrors : outputErrors[i] = family

\* a goroutine writing a routing rule file: the file is written whatever
\* the list holds, an error is appended to outputErrors
OutputBirdConfig(family, name) ==
    /\ pc = "emit" /\ ~OutputDone(family, name)
    /\ IF WriteFile(name)
       THEN files' = files \cup {name} /\ UNCHANGED outputErrors
       ELSE outputErrors' = Append(outputErrors, family) /\ UNCHANGED files
    /\ UNCHANGED <<pc, pipeVars, normVars, aggVars, dbVars, parVars, toolVars,
                   extractErr, failing, dirExists, mkdirFails, exitCode>>

OutputIPv4BirdConfig == OutputBirdConfig("IPv4", "bird_v4.conf")

OutputIPv6BirdConfig == OutputBirdConfig("IPv6", "bird_v6.conf")

\* wg.Wait(), then os.Exit(1) when an error was collected; the function
\* returns and the process ends with code 0 otherwise
ExitGenerate ==
    /\ pc = "emit"
    /\ OutputDone("IPv4", "bird_v4.conf") /\ OutputDone("IPv6", "bird_v6.conf")
    /\ exitCode' = IF Len(outputErrors) > 0 THEN 1 ELSE 0
    /\ pc' = "exited"
    /\ UNCHANGED <<pipeVars, normVars, aggVars, dbVars, parVars, toolVars, extractErr,
                   files, failing, dirExists, mkdirFails, outputErrors>>

EmitNext ==
    \/ FilterIPv4 \/ FilterIPv6 \/ SaveChinaRoutes \/ SmartMerge
    \/ MkdirAll \/ OutputIPv4BirdConfig \/ OutputIPv6BirdConfig \/ ExitGenerate

SpecEmit == EmitInit /\ [][EmitNext]_vars

(***************************************************************************)
(* The same run over one family of ranges with the labels of the           *)
(* classifier's table: every country name, every region substring, two     *)
(* of them at once, no region column, and labels outside China.            *)
(***************************************************************************)
\* the most leaves of such a database
MaxLabelled == 2

Space == <<32>>

\* labels of China whose region names Hong Kong
HongKongInfos ==
    { <<StrZhongguo, StrXianggang>>, <<StrCN, StrHongKong>>,
      <<StrChina, StrMacau \o Space \o StrHongKong>> }

\* labels of China whose region names Macao and not Hong Kong
MacaoInfos ==
    { <<StrChina, StrAomen>>, <<StrChina, StrMacao>>, <<StrZhongguo, StrMacau>>,
      <<StrCN, StrTaiwan \o Space \o StrMacao>> }

\* labels of China whose region names Taiwan only
TaiwanInfos == { <<StrChina, StrTaiwanZh>>, <<StrCN, StrTaiwan>> }

\* labels of China whose region names none of the three, or is missing
MainlandInfos == { InfoMainland, <<StrChina>>, <<StrZhongguo, <<>>>> }

\* labels of other countries
OtherInfos == { InfoUSA, <<StrHongKong, StrHongKong>> }

AllInfos == HongKongInfos \cup MacaoInfos \cup TaiwanInfos \cup MainlandInfos \cup OtherInfos

PlainInfos == {InfoMainland, InfoUSA}

\* IPv4 leaves, in address order, which is the order of the traversal
LabelledV4Leaves ==
    << PathOf(<<0, 0, 0, 0>>, 8),       \* 0.0.0.0/8
       PathOf(<<1, 0, 1, 0>>, 24),      \* 1.0.1.0/24
       PathOf(<<8, 0, 0, 0>>, 8),       \* 8.0.0.0/8
       PathOf(<<10, 0, 0, 0>>, 8),      \* 10.0.0.0/8
       PathOf(<<127, 0, 0, 0>>, 8),     \* 127.0.0.0/8
       PathOf(<<169, 254, 0, 0>>, 16),  \* 169.254.0.0/16
       PathOf(<<172, 16, 0, 0>>, 12),   \* 172.16.0.0/12
       PathOf(<<172, 32, 0, 0>>, 11),   \* 172.32.0.0/11
       PathOf(<<192, 168, 0, 0>>, 16),  \* 192.168.0.0/16
       PathOf(<<224, 0, 0, 0>>, 4),     \* 224.0.0.0/4
       PathOf(<<240, 0, 0, 0>>, 4)      \* 240.0.0.0/4
    >>

\* IPv6 leaves, in address order
LabelledV6Leaves ==
    << PathOf(Zeros(16), 128),                          \* ::/128
       PathOf(Zeros(15) \o <<1>>, 128),                 \* ::1/128
       PathOf(<<32, 1, 13, 184>> \o Zeros(12), 32),     \* 2001:db8::/32
       PathOf(<<252>> \o Zeros(15), 7),                 \* fc00::/7
       PathOf(<<254, 128>> \o Zeros(14), 10),           \* fe80::/10
       PathOf(<<254, 192>> \o Zeros(14), 10),           \* fec0::/10
       PathOf(<<255>> \o Zeros(15), 8)                  \* ff00::/8
    >>

\* the leaves that take every label: 1.0.1.0/24 and 10.0.0.0/8,
\* 2001:db8::/32 and fe80::/10
EveryLabel(isV4) == IF isV4 THEN {2, 4} ELSE {3, 5}

\* ascending selections of at most n leaves
LabelChoices(leaves, n) ==
    { c \in UNION { [1..k -> 1..Len(leaves)] : k \in 1..n } :
        \A i, j \in DOMAIN c : i < j => c[i] < c[j] }

LabelledLists(leaves, isV4, n) ==
    UNION { { [i \in DOMAIN c |-> LeafRange(leaves[c[i]], isV4, lab[i])] :
                lab \in { l \in [DOMAIN c -> AllInfos] :
                            \A i \in DOMAIN c :
                                c[i] \notin EveryLabel(isV4) => l[i] \in PlainInfos } } :
            c \in LabelChoices(leaves, n) }

\* the leaves 8.0.0.0/8, 9.0.0.0/8 and 10.0.0.0/8, all labelled USA
ThreeEights ==
    << LeafRange(PathOf(<<8, 0, 0, 0>>, 8), TRUE, InfoUSA),
       LeafRange(PathOf(<<9, 0, 0, 0>>, 8), TRUE, InfoUSA),
       LeafRange(PathOf(<<10, 0, 0, 0>>, 8), TRUE, InfoUSA) >>

LabelInit ==
    /\ pc = "filter"
    /\ \/ /\ ipv4Ranges \in LabelledLists(LabelledV4Leaves, TRUE, MaxLabelled) \cup {ThreeEights}
          /\ ipv6Ranges = <<>>
       \/ /\ ipv4Ranges = <<>>
          /\ ipv6Ranges \in LabelledLists(LabelledV6Leaves, FALSE, MaxLabelled)
    /\ filterDone = {}
    /\ filteredIPv4 = <<>> /\ filteredIPv6 = <<>>
    /\ chinaIPv4 = <<>> /\ chinaIPv6 = <<>>
    /\ statsIPv4 = NewFilterStats(0) /\ statsIPv6 = NewFilterStats(0)
    /\ chinaCIDRs = <<>> /\ ipv4CIDRs = <<>> /\ ipv6CIDRs = <<>>
    /\ callIPv4 = CallIdle /\ callIPv6 = CallIdle
    /\ NormIdle /\ AggIdle /\ DbIdle /\ MainIdle /\ ToolIdle /\ ParIdle

SpecLabels == LabelInit /\ [][Next]_vars

(***************************************************************************)
(* The extractor on its own, over databases whose node table leads from    *)
(* node 0 through 80 left and 16 right turns to the IPv4 root, with        *)
(* leaves and small subtrees hanging off that path and below the root.     *)
(***************************************************************************)
\* the number of different labels in a database
MaxLeaves == 2

TabByte == 9

LabelTexts ==
    << StrChina \o <<TabByte>> \o StrBeijing,     \* "China\tBeijing"
       StrUSA,                                    \* "USA"
       StrCN \o <<TabByte>> \o StrHongKong >>     \* "CN\tHong Kong"

NumLabels == Min(MaxLeaves, Len(LabelTexts))

\* a label as stored: two bytes of length, then the text
LabelEntry(text) == <<Len(text) \div 256, Len(text) % 256>> \o text

RECURSIVE LabelBytes(_)
LabelBytes(k) ==
    IF k = 0 THEN <<>> ELSE LabelBytes(k - 1) \o LabelEntry(LabelTexts[k])

\* the node reached by calculateV4Offset, and the two nodes after it
V4Root == 80 + 16

NumNodes == V4Root + 3

\* the pointer of the leaf carrying the k-th label
LeafPointer(k) == NumNodes + Len(LabelBytes(k - 1))

LeafPointers == { LeafPointer(k) : k \in 1..NumLabels }

\* a pointer past the end of the data
Dangling == NumNodes + Len(LabelBytes(NumLabels))

\* the node table: the path to the IPv4 root with the side pointers
\* rootRight (node 0), side80 (node 80) and side95 (node 95), then the IPv4
\* root, its child and the node of an IPv6 subtree; pointer 0 is followed
\* by no traversal
NodeTable(rootRight, side80, side95, v4, child, sub) ==
    [n \in 1..NumNodes |->
        IF n = 1 THEN <<1, rootRight>>
        ELSE IF n <= 80 THEN <<n, 0>>
        ELSE IF n = 81 THEN <<side80, n>>
        ELSE IF n = 96 THEN <<side95, n>>
        ELSE IF n <= V4Root THEN <<0, n>>
        ELSE IF n = V4Root + 1 THEN v4
        ELSE IF n = V4Root + 2 THEN child
        ELSE sub]

\* the databases: every shape below the IPv4 root next to one IPv6 side,
\* and every shape of the IPv6 side next to one IPv4 subtree
NodeTables ==
    { NodeTable(LeafPointer(1), 0, 0, v4, child, <<LeafPointer(1), 0>>) :
        v4 \in ({0, V4Root + 1} \cup LeafPointers) \X ({0} \cup LeafPointers),
        child \in ({0} \cup LeafPointers) \X (LeafPointers \cup {Dangling}) }
    \cup
    { NodeTable(rootRight, side80, side95, <<V4Root + 1, LeafPointer(2)>>,
                <<LeafPointer(1), LeafPointer(2)>>, sub) :
        rootRight \in {0, V4Root + 2} \cup LeafPointers,
        side80 \in {0, LeafPointer(1)},
        side95 \in {0, LeafPointer(2)},
        sub \in {LeafPointer(1)} \X ({0} \cup LeafPointers) }

\* a node that nothing points to has one fixed content
ReachableOnly(table) ==
    /\ table[V4Root + 1][1] # V4Root + 1 => table[V4Root + 2] = <<LeafPointer(1), LeafPointer(2)>>
    /\ table[1][2] # V4Root + 2 => table[V4Root + 3] = <<LeafPointer(1), 0>>

ExtractInit ==
    /\ pc = "open"
    /\ nodes \in { t \in NodeTables : ReachableOnly(t) }
    /\ labels = LabelBytes(NumLabels)
    /\ ipVersion \in 1..3
    /\ v4offset = 0 /\ round = 0 /\ stack = <<>>
    /\ PipeIdle /\ NormIdle /\ AggIdle /\ MainIdle /\ ToolIdle /\ ParIdle

\* NewExtractor, after the file is read and its header parsed: one round
\* of the loop of calculateV4Offset
V4OffsetRound ==
    /\ pc = "open"
    /\ round < 96 /\ v4offset < nodeCount
    /\ v4offset' = IF round >= 80 THEN readNode(v4offset, 1) ELSE readNode(v4offset, 0)
    /\ round' = round + 1
    /\ UNCHANGED <<pc, nodes, labels, ipVersion, stack, pipeVars, normVars, aggVars, mainVars, toolVars, parVars>>

\* the loop ends and NewExtractor returns
NewExtractorReturn ==
    /\ pc = "open"
    /\ ~(round < 96 /\ v4offset < nodeCount)
    /\ pc' = "extract"
    /\ UNCHANGED <<dbVars, pipeVars, normVars, aggVars, mainVars, toolVars, parVars>>

\* ExtractAllRanges: the first call of traverseIPv4Node, when the
\* database holds IPv4
BeginIPv4 ==
    /\ pc = "extract"
    /\ stack' = IF ipVersion % 2 = 1 THEN <<Call(v4offset, <<>>)>> ELSE <<>>
    /\ pc' = "traverseIPv4"
    /\ UNCHANGED <<nodes, labels, ipVersion, v4offset, round, pipeVars, normVars, aggVars, mainVars, toolVars, parVars>>

\* the next activation of traverseIPv4Node
VisitIPv4 ==
    /\ pc = "traverseIPv4" /\ stack # <<>>
    /\ LET res == traverseIPv4Node(Head(stack).node, Head(stack).path, ipv4Ranges)
       IN  /\ ipv4Ranges' = res.ranges
           /\ stack' = res.calls \o Tail(stack)
    /\ UNCHANGED <<pc, nodes, labels, ipVersion, v4offset, round,
                   ipv6Ranges, filterDone, filteredIPv4, filteredIPv6,
                   chinaIPv4, chinaIPv6, statsIPv4, statsIPv6, callIPv4, callIPv6, chinaCIDRs,
                   ipv4CIDRs, ipv6CIDRs, normVars, aggVars, mainVars, toolVars, parVars>>

\* the first call of traverseIPv6NodeFromRoot, when the database holds
\* IPv6
BeginIPv6 ==
    /\ pc = "traverseIPv4" /\ stack = <<>>
    /\ stack' = IF (ipVersion \div 2) % 2 = 1 THEN <<Call(0, <<>>)>> ELSE <<>>
    /\ pc' = "traverseIPv6"
    /\ UNCHANGED <<nodes, labels, ipVersion, v4offset, round, pipeVars, normVars, aggVars, mainVars, toolVars, parVars>>

\* the next activation of traverseIPv6NodeFromRoot
VisitIPv6 ==
    /\ pc = "traverseIPv6" /\ stack # <<>>
    /\ LET res == traverseIPv6NodeFromRoot(Head(stack).node, Head(stack).path, ipv6Ranges)
       IN  /\ ipv6Ranges' = res.ranges
           /\ stack' = res.calls \o Tail(stack)
    /\ UNCHANGED <<pc, nodes, labels, ipVersion, v4offset, round,
                   ipv4Ranges, filterDone, filteredIPv4, filteredIPv6,
                   chinaIPv4, chinaIPv6, statsIPv4, statsIPv6, callIPv4, callIPv6, chinaCIDRs,
                   ipv4CIDRs, ipv6CIDRs, normVars, aggVars, mainVars, toolVars, parVars>>

\* ExtractAllRanges returns both sequences and a nil error
ExtractReturn ==
    /\ pc = "traverseIPv6" /\ stack = <<>>
    /\ extractErr' = FALSE
    /\ pc' = "extracted"
    /\ UNCHANGED <<dbVars, pipeVars, normVars, aggVars, files, failing, dirExists,
                   mkdirFails, outputErrors, exitCode, parVars, toolVars>>

ExtractNext ==
    \/ V4OffsetRound \/ NewExtractorReturn
    \/ BeginIPv4 \/ VisitIPv4 \/ BeginIPv6 \/ VisitIPv6 \/ ExtractReturn

SpecExtract == ExtractInit /\ [][ExtractNext]_vars

(***************************************************************************)
(* The normalizer run on its own: rustStyleNormalized applied to one       *)
(* aggregated interval of either family.                                   *)
(***************************************************************************)
\* width of the windows the intervals are drawn from
NormSpan == 12

V4Max == [i \in 1..4 |-> 255]

V6Max == [i \in 1..16 |-> 255]

\* the integer a + n for a small n
Plus(a, n) == BigAdd(a, NewInt(n))

\* window bases: the bottom of the space, a byte carry, the IPv4-mapped
\* block (IPv6), an ordinary place, and the top of the space
NormBases(isV4) ==
    IF isV4
    THEN { SetBytes(<<0, 0, 0, 0>>), SetBytes(<<0, 0, 0, 250>>),
           SetBytes(<<192, 0, 2, 0>>),
           BigSub(SetBytes(V4Max), NewInt(NormSpan - 1)) }
    ELSE { SetBytes(Zeros(16)), SetBytes(<<254, 255, 255, 255, 250>>),
           SetBytes(<<32, 1, 13, 184>> \o Zeros(11) \o <<250>>),
           BigSub(SetBytes(V6Max), NewInt(NormSpan - 1)) }

\* far-apart endpoints, for intervals that need long CIDR lists
NormAnchors(isV4) ==
    IF isV4
    THEN { SetBytes(<<0, 0, 0, 0>>), SetBytes(<<0, 0, 0, 1>>),
           SetBytes(<<8, 0, 0, 0>>), SetBytes(<<10, 255, 255, 255>>),
           SetBytes(<<127, 255, 255, 255>>), SetBytes(<<128, 0, 0, 0>>),
           SetBytes(<<255, 255, 255, 254>>), SetBytes(V4Max) }
    ELSE { SetBytes(Zeros(16)),
           SetBytes(<<255, 255, 0, 0, 0, 0>>), SetBytes(<<255, 255, 255, 255, 255, 255>>),
           SetBytes(<<32, 1, 13, 184>> \o Zeros(12)),
           SetBytes(<<128>> \o Zeros(15)),
           SetBytes(V6Max) }

NormIntervals(isV4) ==
    { DecimalRange(Plus(b, i), Plus(b, j), isV4) :
        <<b, i, j>> \in { t \in NormBases(isV4) \X (0..(NormSpan - 1)) \X (0..(NormSpan - 1)) :
                            t[2] <= t[3] } }
    \cup
    { DecimalRange(p[1], p[2], isV4) :
        p \in { q \in NormAnchors(isV4) \X NormAnchors(isV4) : BigCmp(q[1], q[2]) <= 0 } }

NormInit ==
    /\ pc = "normalize"
    /\ PipeIdle /\ AggIdle /\ DbIdle /\ MainIdle /\ ToolIdle /\ ParIdle
    /\ normV4 \in BOOLEAN
    /\ \E r \in NormIntervals(normV4) : normIn = <<r>>
    /\ normOut = <<>>

\* the call rustStyleNormalized(normIn, normV4)
Normalize ==
    /\ pc = "normalize"
    /\ normOut' = rustStyleNormalized(normIn, normV4)
    /\ pc' = "normalized"
    /\ UNCHANGED <<normIn, normV4, pipeVars, aggVars, dbVars, mainVars, toolVars, parVars>>

NormNext == Normalize

SpecNorm == NormInit /\ [][NormNext]_vars

(***************************************************************************)
(* The aggregators and the two mergers run on their own, over ranges in    *)
(* any order that may touch, overlap, nest or repeat.                      *)
(***************************************************************************)
\* the longest list handed in
MaxAggLen == 3

\* the number of leading bits two addresses share
CommonPrefixLen(a, b) ==
    LET n == 8 * Len(a)
        same(k) == ByteBit(a[((k - 1) \div 8) + 1], 7 - ((k - 1) % 8))
                   = ByteBit(b[((k - 1) \div 8) + 1], 7 - ((k - 1) % 8))
    IN  IF \A k \in 1..n : same(k) THEN n
        ELSE (CHOOSE k \in 1..n : ~same(k) /\ \A j \in 1..(k - 1) : same(j)) - 1

\* the IPRange from startIP to endIP; CIDR names the shortest prefix that
\* holds both, which for the range of a leaf is the leaf's own block
SpanRange(startIP, endIP, isV4) ==
    [CIDR |-> [IP |-> startIP, PrefixLen |-> CommonPrefixLen(startIP, endIP)],
     StartIP |-> startIP, EndIP |-> endIP, Info |-> InfoUSA,
     Type |-> IF isV4 THEN "IPv4" ELSE "IPv6"]

AggV4Ranges ==
    << SpanRange(<<0, 0, 0, 0>>, <<0, 0, 0, 0>>, TRUE),
       SpanRange(<<0, 0, 0, 0>>, <<1, 0, 0, 127>>, TRUE),
       SpanRange(<<1, 0, 0, 0>>, <<1, 0, 0, 255>>, TRUE),
       SpanRange(<<1, 0, 0, 128>>, <<1, 0, 2, 255>>, TRUE),
       SpanRange(<<1, 0, 1, 0>>, <<1, 0, 1, 255>>, TRUE),
       SpanRange(<<1, 0, 3, 0>>, <<1, 0, 3, 255>>, TRUE) >>

\* the second range ends below ::8000:0:0, the third is the block
\* ::8000:0:0/81, which ends at ::ffff:ffff:ffff
AggV6Ranges ==
    << SpanRange(Zeros(16), Zeros(16), FALSE),
       SpanRange(Zeros(16), Zeros(10) \o <<127, 255, 255, 255, 255, 255>>, FALSE),
       SpanRange(Zeros(10) \o <<128>> \o Zeros(5),
                 Zeros(10) \o <<255, 255, 255, 255, 255, 255>>, FALSE),
       SpanRange(<<32, 1, 13, 184>> \o Zeros(12),
                 <<32, 1, 13, 184>> \o [i \in 1..12 |-> 255], FALSE),
       SpanRange(<<32, 1, 13, 184, 128>> \o Zeros(11),
                 <<32, 1, 13, 185, 127>> \o [i \in 1..11 |-> 255], FALSE),
       SpanRange(<<32, 1, 13, 185>> \o Zeros(12),
                 <<32, 1, 13, 185>> \o [i \in 1..12 |-> 255], FALSE) >>

AggRanges(isV4) == IF isV4 THEN AggV4Ranges ELSE AggV6Ranges

AggLists(isV4) ==
    { [i \in DOMAIN c |-> AggRanges(isV4)[c[i]]] :
        c \in UNION { [1..k -> DOMAIN AggRanges(isV4)] : k \in 0..MaxAggLen } }

\* an address as the integer of its family, no IPv4 shortcut taken
AsDecimal(r) ==
    DecimalRange(SetBytes(r.StartIP), SetBytes(r.EndIP), r.Type = "IPv4")

\* the calls of the harness, each made once, in any order
AggCalls ==
    {"rustStyleAggregated", "simpleAggregateDecimalRanges",
     "rustStyleAggregateAndNormalize", "MergeCIDRs"}

AggInit ==
    /\ pc = "aggregate"
    /\ PipeIdle /\ NormIdle /\ DbIdle /\ MainIdle /\ ToolIdle /\ ParIdle
    /\ aggV4 \in BOOLEAN
    /\ aggGiven \in AggLists(aggV4)
    /\ aggIn = aggGiven /\ aggDone = {}
    /\ aggOut = <<>> /\ simpleOut = <<>> /\ aggCIDRs = <<>> /\ simpleCIDRs = <<>>

\* the call named is made now; after the last one the harness is through
AggCall(name) ==
    /\ pc = "aggregate" /\ name \notin aggDone
    /\ aggDone' = aggDone \cup {name}
    /\ pc' = IF aggDone \cup {name} = AggCalls THEN "merged" ELSE pc
    /\ UNCHANGED <<aggGiven, aggV4, pipeVars, normVars, dbVars, mainVars, toolVars, parVars>>

\* the call rustStyleAggregated(aggIn, aggV4), which sorts aggIn
Aggregate ==
    /\ AggCall("rustStyleAggregated")
    /\ aggOut' = rustStyleAggregated(aggIn, aggV4)
    /\ aggIn' = SortByStartIP(aggIn)
    /\ UNCHANGED <<simpleOut, aggCIDRs, simpleCIDRs>>

\* the call of simpleAggregateDecimalRanges on the same intervals
SimpleAggregate ==
    /\ AggCall("simpleAggregateDecimalRanges")
    /\ simpleOut' = simpleAggregateDecimalRanges([i \in DOMAIN aggIn |-> AsDecimal(aggIn[i])])
    /\ UNCHANGED <<aggIn, aggOut, aggCIDRs, simpleCIDRs>>

\* the call rustStyleAggregateAndNormalize(aggIn, aggV4), which sorts
\* aggIn in rustStyleAggregated
AggregateAndNormalize ==
    /\ AggCall("rustStyleAggregateAndNormalize")
    /\ aggCIDRs' = rustStyleAggregateAndNormalize(aggIn, aggV4)
    /\ aggIn' = SortByStartIP(aggIn)
    /\ UNCHANGED <<aggOut, simpleOut, simpleCIDRs>>

\* the call MergeCIDRs(RangesToCIDRs(aggIn))
MergeChina ==
    /\ AggCall("MergeCIDRs")
    /\ simpleCIDRs' = MergeCIDRs(RangesToCIDRs(aggIn))
    /\ UNCHANGED <<aggIn, aggOut, simpleOut, aggCIDRs>>

AggNext == Aggregate \/ SimpleAggregate \/ AggregateAndNormalize \/ MergeChina

SpecAgg == AggInit /\ [][AggNext]_vars

(***************************************************************************)
(* FilterRangesParallel on its own: the workers send their results in any  *)
(* order, the caller collects them in the order they were sent.            *)
(***************************************************************************)
\* the longest list handed in
MaxParLen == 3

ParLeaves ==
    << PathOf(<<1, 0, 0, 0>>, 24), PathOf(<<1, 0, 1, 0>>, 24),
       PathOf(<<1, 0, 3, 0>>, 24), PathOf(<<10, 0, 0, 0>>, 8) >>

ParLists == RangeLists(ParLeaves, TRUE, PipeInfos, MaxParLen)

ParInit ==
    /\ pc = "parallel"
    /\ useParallel = TRUE
    /\ parIn \in ParLists
    /\ numCPU \in 1..MaxCPU
    /\ chunks = <<>> /\ pending = {} /\ resultChan = <<>> /\ chanClosed = FALSE
    /\ allFiltered = <<>> /\ allChinaRanges = <<>> /\ totalStats = NewFilterStats(0)
    /\ PipeIdle /\ NormIdle /\ AggIdle /\ DbIdle /\ MainIdle /\ ToolIdle

\* FilterRangesParallel up to the start of its goroutines; an empty list
\* is returned at once
ParStart ==
    /\ pc = "parallel"
    /\ IF Len(parIn) = 0
       THEN /\ allFiltered' = parIn
            /\ pc' = "returned"
            /\ UNCHANGED <<chunks, pending, totalStats>>
       ELSE LET numWorkers == NumWorkers(numCPU, Len(parIn))
                chunkSize  == ChunkSize(Len(parIn), numWorkers)
            IN  /\ chunks' = [i \in 1..numWorkers |->
                                 ChunkOf(i - 1, numWorkers, chunkSize, Len(parIn))]
                /\ pending' = 1..numWorkers
                /\ totalStats' = NewFilterStats(Len(parIn))
                /\ pc' = "collect"
                /\ UNCHANGED allFiltered
    /\ UNCHANGED <<useParallel, parIn, numCPU, resultChan, chanClosed, allChinaRanges,
                   pipeVars, normVars, aggVars, dbVars, mainVars, toolVars>>

\* a worker filters its chunk and sends the result; the send waits while
\* the channel is full
WorkerSend ==
    /\ pc = "collect"
    /\ Len(resultChan) < ChanCap(Len(chunks))
    /\ \E i \in pending :
           /\ resultChan' = Append(resultChan, WorkerResult(parIn, chunks[i]))
           /\ pending' = pending \ {i}
    /\ UNCHANGED <<pc, useParallel, parIn, numCPU, chunks, chanClosed, allFiltered,
                   allChinaRanges, totalStats, pipeVars, normVars, aggVars,
                   dbVars, mainVars, toolVars>>

\* wg.Wait() returns and the channel is closed
CloseChan ==
    /\ pc = "collect" /\ pending = {} /\ ~chanClosed
    /\ chanClosed' = TRUE
    /\ UNCHANGED <<pc, useParallel, parIn, numCPU, chunks, pending, resultChan, allFiltered,
                   allChinaRanges, totalStats, pipeVars, normVars, aggVars,
                   dbVars, mainVars, toolVars>>

\* one round of the loop over resultChan
Collect ==
    /\ pc = "collect" /\ resultChan # <<>>
    /\ LET res == Head(resultChan)
       IN  /\ allFiltered' = allFiltered \o res.filtered
           /\ allChinaRanges' = allChinaRanges \o res.chinaRanges
           /\ totalStats' = CollectStats(totalStats, res.stats)
    /\ resultChan' = Tail(resultChan)
    /\ UNCHANGED <<pc, useParallel, parIn, numCPU, chunks, pending, chanClosed,
                   pipeVars, normVars, aggVars, dbVars, mainVars, toolVars>>

\* the loop ends on the closed, drained channel
ParReturn ==
    /\ pc = "collect" /\ chanClosed /\ resultChan = <<>>
    /\ pc' = "returned"
    /\ UNCHANGED <<pipeVars, normVars, aggVars, dbVars, mainVars, toolVars, parVars>>

ParNext == ParStart \/ WorkerSend \/ CloseChan \/ Collect \/ ParReturn

SpecPar == ParInit /\ [][ParNext]_vars

\* the Go scheduler runs every goroutine that can take a step: the
\* workers, the goroutine that closes the channel, and the collector
SpecParFair ==
    /\ ParInit /\ [][ParNext]_vars
    /\ WF_vars(ParStart) /\ WF_vars(WorkerSend) /\ WF_vars(CloseChan)
    /\ WF_vars(Collect) /\ WF_vars(ParReturn)

(***************************************************************************)
(* validateConfigs: the sampling validator and the validate mode.          *)
(***************************************************************************)
\* strings.ToLower on the bytes of a string of ASCII and CJK characters
ToLower(s) == [i \in DOMAIN s |-> IF s[i] >= 65 /\ s[i] <= 90 THEN s[i] + 32 ELSE s[i]]

\* IPValidator.isChinaMainland
isChinaMainland(info) ==
    LET country == ToLower(countryName(info))
        region  == ToLower(regionName(info))
    IN  IF Contains(country, StrZhongguo) \/ country = ToLower(StrChina)
        THEN ~ \/ Contains(region, StrXianggang)
               \/ Contains(region, ToLower(StrHongKong))
               \/ Contains(region, StrAomen)
               \/ Contains(region, ToLower(StrMacao))
               \/ Contains(region, StrTaiwanZh)
               \/ Contains(region, ToLower(StrTaiwan))
        ELSE FALSE

\* IPValidator.isPrivateOrReservedIP on a parsed address
isPrivateOrReservedIP(ip) ==
    LET ip16 == To16(ip)
    IN  IF To4(ip) # <<>>
        THEN \/ ip16[13] = 10
             \/ ip16[13] = 172 /\ ip16[14] >= 16 /\ ip16[14] <= 31
             \/ ip16[13] = 192 /\ ip16[14] = 168
             \/ ip16[13] = 127
             \/ ip16[13] = 169 /\ ip16[14] = 254
             \/ ip16[13] >= 224 /\ ip16[13] <= 239
             \/ ip16[13] >= 240
        ELSE \/ IsLoopback(ip16)
             \/ ip16[1] = 254 /\ ByteAnd(ip16[2], 192) = 128
             \/ ByteAnd(ip16[1], 254) = 252
             \/ ip16[1] = 255

NewValidationResult ==
    [TotalIPsChecked |-> 0, ChinaMainlandFound |-> 0, PrivateAddressFound |-> 0,
     InvalidAddressFound |-> 0, ValidNonChinaFound |-> 0]

\* one round of the inner loop of ValidateCIDRs: ValidateIP on a sampled
\* address, whose database record is s.info when s.found
ValidateIP(v, s) ==
    LET w == [v EXCEPT !.TotalIPsChecked = @ + 1]
    IN  IF isPrivateOrReservedIP(s.ip)
        THEN [w EXCEPT !.PrivateAddressFound = @ + 1]
        ELSE IF ~s.found
        THEN [w EXCEPT !.InvalidAddressFound = @ + 1]
        ELSE IF isChinaMainland(s.info)
        THEN [w EXCEPT !.ChinaMainlandFound = @ + 1]
        ELSE [w EXCEPT !.ValidNonChinaFound = @ + 1]

RECURSIVE ValidateFrom(_, _, _)
ValidateFrom(samples, i, v) ==
    IF i > Len(samples) THEN v
    ELSE ValidateFrom(samples, i + 1, ValidateIP(v, samples[i]))

\* the addresses sampled from the CIDR entries, entry after entry
RECURSIVE SampledFrom(_, _)
SampledFrom(cidrs, i) ==
    IF i > Len(cidrs) THEN <<>> ELSE cidrs[i] \o SampledFrom(cidrs, i + 1)

\* ValidateCIDRs: an entry that GenerateSampleIPs rejects is passed over,
\* every address sampled from the others is validated
ValidateCIDRs(cidrs) == ValidateFrom(SampledFrom(cidrs, 1), 1, NewValidationResult)

\* validateConfigFile: false when the database does not load, when the
\* file cannot be read and when it holds no CIDR entry; every other file
\* is validated and passes
validateConfigFile(file, db) ==
    IF db # "ok" THEN FALSE
    ELSE IF ~file.readable THEN FALSE
    ELSE Len(file.cidrs) # 0

\* the most CIDR entries of a file
MaxSamples == 2

ValSamples ==
    { [ip |-> <<8, 8, 8, 8>>, info |-> InfoUSA, found |-> TRUE],
      [ip |-> <<1, 0, 1, 1>>, info |-> InfoMainland, found |-> TRUE],
      [ip |-> <<10, 0, 0, 1>>, info |-> InfoUSA, found |-> TRUE],
      [ip |-> <<9, 9, 9, 9>>, info |-> <<>>, found |-> FALSE] }

\* a CIDR entry by the addresses sampled from it: none when
\* net.ParseCIDR rejects the entry, the network address otherwise
ValEntries == { <<>> } \cup { <<smp>> : smp \in ValSamples }

\* a configuration file: missing, there and unreadable, or there with
\* its CIDR entries
ValFiles ==
    { [exists |-> FALSE, readable |-> FALSE, cidrs |-> <<>>],
      [exists |-> TRUE, readable |-> FALSE, cidrs |-> <<>>] } \cup
    UNION { { [exists |-> TRUE, readable |-> TRUE, cidrs |-> c] :
                c \in [1..n -> ValEntries] } :
            n \in 0..MaxSamples }

\* no file, the IPv4 file, the IPv6 file, or both
ValInit ==
    /\ pc = "validateStart"
    /\ valDb \in {"missing", "broken", "ok"}
    /\ valFiles \in {<<>>} \cup [{1} -> ValFiles] \cup [{1, 2} -> ValFiles]
    /\ valResults = <<>> /\ valPassed = <<>>
    /\ gapIn = <<>> /\ gapOut = <<>> /\ pairIn = <<>> /\ pairOut = <<>>
    /\ PipeIdle /\ NormIdle /\ AggIdle /\ DbIdle /\ MainIdle /\ ParIdle

\* validateConfigs up to its loop: log.Fatalf when the database file is
\* missing, os.Exit(1) when there is no file to validate
ValidateStart ==
    /\ pc = "validateStart"
    /\ IF valDb = "missing" \/ Len(valFiles) = 0
       THEN pc' = "validated" /\ exitCode' = 1
       ELSE pc' = "validate" /\ UNCHANGED exitCode
    /\ UNCHANGED <<toolVars, pipeVars, normVars, aggVars, dbVars, parVars,
                   extractErr, files, failing, dirExists, mkdirFails,
                   outputErrors>>

\* the validator's counters after validateConfigFile on the file
ValidationResultOf(file, db) ==
    IF db = "ok" /\ file.readable /\ Len(file.cidrs) # 0
    THEN ValidateCIDRs(file.cidrs) ELSE NewValidationResult

\* one round of the loop over configFiles
ValidateFile ==
    /\ pc = "validate" /\ Len(valPassed) < Len(valFiles)
    /\ LET file == valFiles[Len(valPassed) + 1]
       IN  IF ~file.exists
           THEN /\ valPassed' = Append(valPassed, FALSE)
                /\ valResults' = Append(valResults, NewValidationResult)
           ELSE /\ valPassed' = Append(valPassed, validateConfigFile(file, valDb))
                /\ valResults' = Append(valResults, ValidationResultOf(file, valDb))
    /\ UNCHANGED <<pc, valDb, valFiles, gapIn, gapOut, pairIn, pairOut, pipeVars,
                   normVars, aggVars, dbVars, mainVars, parVars>>

\* the end of validateConfigs: os.Exit(1) unless every file passed
ValidateExit ==
    /\ pc = "validate" /\ Len(valPassed) = Len(valFiles)
    /\ exitCode' = IF \A i \in DOMAIN valPassed : valPassed[i] THEN 0 ELSE 1
    /\ pc' = "validated"
    /\ UNCHANGED <<toolVars, pipeVars, normVars, aggVars, dbVars, parVars,
                   extractErr, files, failing, dirExists, mkdirFails,
                   outputErrors>>

ValNext == ValidateStart \/ ValidateFile \/ ValidateExit

SpecVal == ValInit /\ [][ValNext]_vars

(***************************************************************************)
(* The pairwise merger: MergeCIDRs of merger.go, one pass over the sorted  *)
(* blocks that joins a block with the next one.                            *)
(***************************************************************************)
\* mask.Size(): the number of one bits of a mask
RECURSIVE OnesFrom(_, _)
OnesFrom(mask, i) ==
    IF i > Len(mask) THEN 0
    ELSE Cardinality({k \in 0..7 : ByteBit(mask[i], k) = 1}) + OnesFrom(mask, i + 1)

MaskOnes(mask) == OnesFrom(mask, 1)

\* isNextIP: ip1 + 1, wrapping to zero, equals ip2
isNextIP(ip1, ip2) ==
    LET carried == { i \in DOMAIN ip1 : \A j \in (i + 1)..Len(ip1) : ip1[j] = 255 }
        nextIP  == [i \in DOMAIN ip1 |->
                       IF i \in carried THEN (ip1[i] + 1) % 256 ELSE ip1[i]]
    IN  To16(nextIP) = To16(ip2)

\* isAdjacent
isAdjacent(cidr1, cidr2) ==
    /\ isIPv4(cidr1.StartIP) = isIPv4(cidr2.StartIP)
    /\ isNextIP(cidr1.EndIP, cidr2.StartIP)

\* overlaps
overlaps(cidr1, cidr2) ==
    /\ isIPv4(cidr1.StartIP) = isIPv4(cidr2.StartIP)
    /\ compareIPs(cidr1.StartIP, cidr2.EndIP) <= 0
    /\ compareIPs(cidr2.StartIP, cidr1.EndIP) <= 0

\* the lower of two first addresses, the higher of two last addresses
LowerStart(cidr1, cidr2) ==
    IF compareIPs(cidr2.StartIP, cidr1.StartIP) < 0 THEN cidr2.StartIP
    ELSE cidr1.StartIP

HigherEnd(cidr1, cidr2) ==
    IF compareIPs(cidr2.EndIP, cidr1.EndIP) > 0 THEN cidr2.EndIP ELSE cidr1.EndIP

\* tryMergeAdjacent: <<>> for nil, the parent block of two blocks of one
\* prefix length that have the same parent
tryMergeAdjacent(cidr1, cidr2) ==
    LET prefix1 == MaskOnes(cidr1.Network.Mask)
        prefix2 == MaskOnes(cidr2.Network.Mask)
        bits    == IF isIPv4(cidr1.StartIP) THEN 32 ELSE 128
    IN  IF prefix1 # prefix2 \/ prefix1 = 0 THEN <<>>
        ELSE LET mask == CIDRMask(prefix1 - 1, bits)
                 ip1  == IPMask(cidr1.StartIP, mask)
                 ip2  == IPMask(cidr2.StartIP, mask)
             IN  IF To16(ip1) = To16(ip2)
                 THEN << [Network |-> [IP |-> ip1, Mask |-> mask],
                          StartIP |-> LowerStart(cidr1, cidr2),
                          EndIP |-> HigherEnd(cidr1, cidr2)] >>
                 ELSE <<>>

\* calculateMinimalNetwork: the longest prefix whose block at startIP
\* holds endIP
calculateMinimalNetwork(startIP, endIP) ==
    LET bits == IF isIPv4(startIP) THEN 32 ELSE 128
        holds(p) == IPMask(endIP, CIDRMask(p, bits)) = IPMask(startIP, CIDRMask(p, bits))
        prefix == CHOOSE p \in 0..bits :
                      holds(p) /\ \A q \in (p + 1)..bits : ~holds(q)
    IN  [IP |-> IPMask(startIP, CIDRMask(prefix, bits)), Mask |-> CIDRMask(prefix, bits)]

\* mergeOverlapping
mergeOverlapping(cidr1, cidr2) ==
    LET startIP == LowerStart(cidr1, cidr2)
        endIP   == HigherEnd(cidr1, cidr2)
    IN  [Network |-> calculateMinimalNetwork(startIP, endIP),
         StartIP |-> startIP, EndIP |-> endIP]

\* the loop of MergeCIDRs from cidrs[i] on
RECURSIVE PairwiseMergeFrom(_, _, _, _)
PairwiseMergeFrom(cidrs, i, current, merged) ==
    IF i > Len(cidrs) THEN Append(merged, current)
    ELSE LET next == cidrs[i]
         IN  IF isAdjacent(current, next)
             THEN LET mergedCIDR == tryMergeAdjacent(current, next)
                  IN  IF mergedCIDR # <<>>
                      THEN PairwiseMergeFrom(cidrs, i + 1, mergedCIDR[1], merged)
                      ELSE PairwiseMergeFrom(cidrs, i + 1, next, Append(merged, current))
             ELSE IF overlaps(current, next)
             THEN PairwiseMergeFrom(cidrs, i + 1, mergeOverlapping(current, next), merged)
             ELSE PairwiseMergeFrom(cidrs, i + 1, next, Append(merged, current))

\* MergeCIDRs of merger.go
MergeCIDRsPairwise(cidrs) ==
    IF Len(cidrs) = 0 THEN cidrs
    ELSE LET sorted == SortByStartIP(cidrs)
         IN  PairwiseMergeFrom(sorted, 2, sorted[1], <<>>)

\* the most blocks handed to the pairwise merger
MaxPairLen == 3

\* the CIDR block of n leading bits at ip
PairBlock(ip, n) ==
    LET mask    == CIDRMask(n, 8 * Len(ip))
        network == [IP |-> IPMask(ip, mask), Mask |-> mask]
    IN  [Network |-> network, StartIP |-> network.IP,
         EndIP |-> calculateNetworkEndIP(network)]

PairV4Blocks ==
    { PairBlock(<<1, 0, 0, 0>>, 26), PairBlock(<<1, 0, 0, 64>>, 26),
      PairBlock(<<1, 0, 0, 128>>, 26), PairBlock(<<1, 0, 0, 192>>, 26),
      PairBlock(<<1, 0, 0, 0>>, 25), PairBlock(<<1, 0, 0, 128>>, 25),
      PairBlock(<<1, 0, 1, 0>>, 24) }

PairV6Blocks ==
    { PairBlock(<<32, 1, 13, 184>> \o Zeros(12), 33),
      PairBlock(<<32, 1, 13, 184, 128>> \o Zeros(11), 33),
      PairBlock(<<32, 1, 13, 185>> \o Zeros(12), 32) }

\* lists of pairwise disjoint blocks of one family, in any order
PairLists ==
    { s \in UNION { [1..k -> PairV4Blocks] \cup [1..k -> PairV6Blocks] :
                    k \in 0..MaxPairLen } :
        \A i, j \in DOMAIN s : i < j => ~overlaps(s[i], s[j]) }

PairInit ==
    /\ pc = "pairwise"
    /\ pairIn \in PairLists
    /\ pairOut = <<>>
    /\ valDb = "ok" /\ valFiles = <<>> /\ valResults = <<>> /\ valPassed = <<>>
    /\ gapIn = <<>> /\ gapOut = <<>>
    /\ PipeIdle /\ NormIdle /\ AggIdle /\ DbIdle /\ MainIdle /\ ParIdle

\* the call MergeCIDRs(pairIn), which sorts pairIn
PairMerge ==
    /\ pc = "pairwise"
    /\ pairOut' = MergeCIDRsPairwise(pairIn)
    /\ pairIn' = SortByStartIP(pairIn)
    /\ pc' = "pairMerged"
    /\ UNCHANGED <<valDb, valFiles, valResults, valPassed, gapIn, gapOut,
                   pipeVars, normVars, aggVars, dbVars, mainVars, parVars>>

SpecPair == PairInit /\ [][PairMerge]_vars

(***************************************************************************)
(* The coverage tool: uint32 addresses are kept as their four bytes, most  *)
(* significant first, and + 1 and - 1 wrap around as uint32 does.          *)
(***************************************************************************)
\* a < b and a >= b on uint32
Less32(a, b) == compareIPs(a, b) < 0

Geq32(a, b) == compareIPs(a, b) >= 0

\* x + 1 on uint32
Inc32(x) ==
    LET carried == { i \in DOMAIN x : \A j \in (i + 1)..Len(x) : x[j] = 255 }
    IN  [i \in DOMAIN x |-> IF i \in carried THEN (x[i] + 1) % 256 ELSE x[i]]

\* x - 1 on uint32
Dec32(x) ==
    LET borrowed == { i \in DOMAIN x : \A j \in (i + 1)..Len(x) : x[j] = 0 }
    IN  [i \in DOMAIN x |-> IF i \in borrowed THEN (x[i] + 255) % 256 ELSE x[i]]

Max32 == <<255, 255, 255, 255>>

\* convertCIDRToRange: start + (1 << hostBits) - 1 is the last address of
\* the block, also for the prefix length 0, where the shift gives 0
convertCIDRToRange(ip, ones) ==
    LET mask == CIDRMask(ones, 32)
        network == [IP |-> IPMask(ip, mask), Mask |-> mask]
    IN  [Start |-> network.IP, End |-> calculateNetworkEndIP(network)]

\* sort.Sort(CoverageRangeList(ranges)): ascending Start, an insertion
\* sort for lists this short
RECURSIVE InsertByStart(_, _)
InsertByStart(s, x) ==
    IF s = <<>> THEN <<x>>
    ELSE IF Less32(x.Start, Head(s).Start) THEN <<x>> \o s
    ELSE <<Head(s)>> \o InsertByStart(Tail(s), x)

RECURSIVE SortByStart(_)
SortByStart(s) ==
    IF s = <<>> THEN <<>>
    ELSE InsertByStart(SortByStart(SubSeq(s, 1, Len(s) - 1)), s[Len(s)])

\* the loop of mergeCoverageRanges from ranges[i] on
RECURSIVE CoverageMergeFrom(_, _, _, _)
CoverageMergeFrom(ranges, i, current, merged) ==
    IF i > Len(ranges) THEN Append(merged, current)
    ELSE LET next == ranges[i]
         IN  IF Geq32(Inc32(current.End), next.Start)
             THEN CoverageMergeFrom(ranges, i + 1,
                      IF Less32(current.End, next.End)
                      THEN [current EXCEPT !.End = next.End] ELSE current,
                      merged)
             ELSE CoverageMergeFrom(ranges, i + 1, next, Append(merged, current))

\* mergeCoverageRanges
mergeCoverageRanges(ranges) ==
    IF Len(ranges) = 0 THEN ranges
    ELSE LET sorted == SortByStart(ranges)
         IN  CoverageMergeFrom(sorted, 2, sorted[1], <<>>)

\* the gaps between merged[i] and merged[i + 1], from i on
RECURSIVE GapsBetween(_, _)
GapsBetween(merged, i) ==
    IF i > Len(merged) - 1 THEN <<>>
    ELSE (IF Less32(Inc32(merged[i].End), merged[i + 1].Start)
          THEN << [Start |-> Inc32(merged[i].End),
                   End |-> Dec32(merged[i + 1].Start)] >>
          ELSE <<>>) \o GapsBetween(merged, i + 1)

\* findIPv4Gaps
findIPv4Gaps(ranges) ==
    IF Len(ranges) = 0 THEN << [Start |-> Zeros(4), End |-> Max32] >>
    ELSE LET merged    == mergeCoverageRanges(ranges)
             lastRange == merged[Len(merged)]
         IN  (IF Less32(Zeros(4), merged[1].Start)
              THEN << [Start |-> Zeros(4), End |-> Dec32(merged[1].Start)] >>
              ELSE <<>>)
             \o GapsBetween(merged, 1)
             \o (IF Less32(lastRange.End, Max32)
                 THEN << [Start |-> Inc32(lastRange.End), End |-> Max32] >>
                 ELSE <<>>)

\* the most ranges read from the route files and the reserved table
MaxGapLen == 3

GapRanges ==
    { convertCIDRToRange(<<0, 0, 0, 0>>, 0), convertCIDRToRange(<<0, 0, 0, 0>>, 1),
      convertCIDRToRange(<<128, 0, 0, 0>>, 1), convertCIDRToRange(<<0, 0, 0, 0>>, 8),
      convertCIDRToRange(<<1, 0, 0, 0>>, 8), convertCIDRToRange(<<2, 0, 0, 0>>, 7),
      convertCIDRToRange(<<240, 0, 0, 0>>, 4), convertCIDRToRange(<<248, 0, 0, 0>>, 5) }

GapInit ==
    /\ pc = "coverage"
    /\ gapIn \in UNION { [1..k -> GapRanges] : k \in 0..MaxGapLen }
    /\ gapOut = <<>>
    /\ valDb = "ok" /\ valFiles = <<>> /\ valResults = <<>> /\ valPassed = <<>>
    /\ pairIn = <<>> /\ pairOut = <<>>
    /\ PipeIdle /\ NormIdle /\ AggIdle /\ DbIdle /\ MainIdle /\ ParIdle

\* main of the coverage tool from the call of findIPv4Gaps to its end:
\* os.Exit(1) when there is a gap; mergeCoverageRanges sorts gapIn
FindGaps ==
    /\ pc = "coverage"
    /\ gapOut' = findIPv4Gaps(gapIn)
    /\ gapIn' = SortByStart(gapIn)
    /\ exitCode' = IF Len(findIPv4Gaps(gapIn)) > 0 THEN 1 ELSE 0
    /\ pc' = "covered"
    /\ UNCHANGED <<valDb, valFiles, valResults, valPassed, pairIn, pairOut,
                   pipeVars, normVars, aggVars, dbVars, parVars, extractErr,
                   files, failing, dirExists, mkdirFails, outputErrors>>

SpecGap == GapInit /\ [][FindGaps]_vars

(***************************************************************************)
(* What a CIDR list covers, read off the networks alone.                   *)
(***************************************************************************)
\* the mask is a run of ones followed by zeros and the network address
\* has no bit set below the prefix
ZeroHostBits(c) ==
    /\ Len(c.Network.IP) = Len(c.Network.Mask)
    /\ c.Network.Mask = CIDRMask(MaskOnes(c.Network.Mask), 8 * Len(c.Network.Mask))
    /\ \A i \in DOMAIN c.Network.IP :
           ByteAnd(c.Network.IP[i], ByteNot(c.Network.Mask[i])) = 0

\* the lowest and the highest address of the block, as integers of the
\* family (no IPv4 shortcut taken)
BlockLo(c) == SetBytes(c.Network.IP)

BlockHi(c) ==
    SetBytes([i \in DOMAIN c.Network.IP |->
                 ByteOr(c.Network.IP[i], ByteNot(c.Network.Mask[i]))])

\* cidrs[from..] is a chain of blocks: the first starts at lo, each next
\* one starts right after the previous one, the last ends at hi
Tiles(cidrs, lo, hi) ==
    /\ Len(cidrs) >= 1
    /\ \A i \in DOMAIN cidrs : ZeroHostBits(cidrs[i])
    /\ BlockLo(cidrs[1]) = lo
    /\ \A i \in 1..(Len(cidrs) - 1) :
           BlockLo(cidrs[i + 1]) = Plus(BlockHi(cidrs[i]), 1)
    /\ BlockHi(cidrs[Len(cidrs)]) = hi

(***************************************************************************)
(* The shortest CIDR list of an interval, computed without the greedy      *)
(* loop.  Two blocks of a CIDR list are nested or disjoint, so a shortest  *)
(* list uses only blocks lying in the interval that no larger such block   *)
(* contains, and it needs every one of them.  The parent of such a block   *)
(* leaves the interval on the left, and then the block is the upper half   *)
(* of the parent holding the interval's first address, or on the right,    *)
(* and then it is the lower half of the parent holding the last address.   *)
(***************************************************************************)
\* the bits of x, most significant first
BitsOf(x, n) == [i \in 1..n |-> BigBit(x, n - i)]

\* a <= b for bit strings of one length
BitsLe(a, b) ==
    \/ a = b
    \/ \E i \in DOMAIN a : /\ a[i] < b[i]
                           /\ \A j \in 1..(i - 1) : a[j] = b[j]

\* the block of 2^k addresses with the given leading bits filled to n bits
Fill(prefixBits, n, v) == prefixBits \o [i \in 1..(n - Len(prefixBits)) |-> v]

BlockInside(prefixBits, f, l, n) ==
    BitsLe(f, Fill(prefixBits, n, 0)) /\ BitsLe(Fill(prefixBits, n, 1), l)

\* the blocks of the shortest list, each named by its leading bits
MaximalBlocks(first, last, n) ==
    LET f == BitsOf(first, n)
        l == BitsOf(last, n)
        candidates ==
            { <<>> } \cup
            { Append(SubSeq(f, 1, m - 1), 1) : m \in 1..n } \cup
            { Append(SubSeq(l, 1, m - 1), 0) : m \in 1..n }
    IN  { c \in candidates :
            /\ BlockInside(c, f, l, n)
            /\ c # <<>> => ~BlockInside(SubSeq(c, 1, Len(c) - 1), f, l, n) }

\* the lowest byte of an integer
LowByte(x) == IF x.abs = <<>> THEN 0 ELSE x.abs[Len(x.abs)]

\* the fewest blocks tiling n addresses of which the first has the low
\* byte low, by trying every block size at every position (n at most 255,
\* so that only the low byte decides the alignment)
RECURSIVE FewestTiles(_, _)
FewestTiles(low, n) ==
    IF n = 0 THEN 0
    ELSE LET sizes == { k \in 0..7 : Pow2(k) <= n /\ low % Pow2(k) = 0 }
             best(k) == 1 + FewestTiles((low + Pow2(k)) % 256, n - Pow2(k))
         IN  CHOOSE m \in { best(k) : k \in sizes } :
                 \A k \in sizes : m <= best(k)

\* the number of addresses of a short interval
ShortLength(r) ==
    LET d == BigSub(r.Last, r.First)
    IN  IF Len(d.abs) > 1 THEN 256 ELSE LowByte(d) + 1

\* C2: for every interval first <= last handed to the normalizer, every
\* CIDR returned has zero host bits and the CIDRs cover exactly the
\* addresses first..last: nothing outside is covered, nothing inside is
\* missed.
NormalizerExact ==
    pc = "normalized" =>
        Tiles(normOut, normIn[1].First, normIn[1].Last)

\* a run where the normalizer returned several IPv6 CIDRs
NormalizerExactWitness ==
    /\ pc = "normalized" /\ ~normV4
    /\ Len(normOut) >= 3
    /\ BigCmp(normIn[1].First, normIn[1].Last) < 0

\* C3: the list returned for an interval is a shortest one: it has as
\* many CIDRs as the interval has maximal aligned blocks, and no tiling
\* of a short interval by aligned blocks has fewer.
NormalizerMinimal ==
    pc = "normalized" =>
        /\ Len(normOut) =
               Cardinality(MaximalBlocks(normIn[1].First, normIn[1].Last,
                                         IF normV4 THEN 32 ELSE 128))
        /\ ShortLength(normIn[1]) <= NormSpan =>
               Len(normOut) = FewestTiles(LowByte(normIn[1].First),
                                             ShortLength(normIn[1]))

\* a run on a short IPv4 interval whose shortest list has four CIDRs
NormalizerMinimalWitness ==
    /\ pc = "normalized" /\ normV4
    /\ ShortLength(normIn[1]) <= NormSpan
    /\ Len(normOut) = 4

(***************************************************************************)
(* Ranges, blocks and the reserved table as integer intervals.             *)
(***************************************************************************)
\* the intervals lo1..hi1 and lo2..hi2 share an address
Meets(lo1, hi1, lo2, hi2) == BigCmp(lo1, hi2) <= 0 /\ BigCmp(lo2, hi1) <= 0

\* the CIDR c and the range r share an address
CIDRMeetsRange(c, r) ==
    Meets(BlockLo(c), BlockHi(c), SetBytes(r.StartIP), SetBytes(r.EndIP))

\* the block ip/n as a network
TableBlock(ip, n) == [Network |-> [IP |-> ip, Mask |-> CIDRMask(n, 8 * Len(ip))]]

\* the fixed reserved table
ReservedV4 ==
    { TableBlock(<<0, 0, 0, 0>>, 8), TableBlock(<<10, 0, 0, 0>>, 8),
      TableBlock(<<127, 0, 0, 0>>, 8), TableBlock(<<169, 254, 0, 0>>, 16),
      TableBlock(<<172, 16, 0, 0>>, 12), TableBlock(<<192, 168, 0, 0>>, 16),
      TableBlock(<<224, 0, 0, 0>>, 4), TableBlock(<<240, 0, 0, 0>>, 4) }

ReservedV6 ==
    { TableBlock(Zeros(15) \o <<1>>, 128), TableBlock(<<254, 128>> \o Zeros(14), 10),
      TableBlock(<<252>> \o Zeros(15), 7), TableBlock(<<255>> \o Zeros(15), 8),
      TableBlock(Zeros(16), 128) }

\* the table as pairs of a lowest and a highest address
ReservedV4Intervals == { <<BlockLo(t), BlockHi(t)>> : t \in ReservedV4 }

ReservedV6Intervals == { <<BlockLo(t), BlockHi(t)>> : t \in ReservedV6 }

ReservedIntervals(isV4) == IF isV4 THEN ReservedV4Intervals ELSE ReservedV6Intervals

\* the CIDR c holds an address of the reserved table
CIDRMeetsReserved(c, isV4) ==
    LET lo == BlockLo(c)
        hi == BlockHi(c)
    IN  \E t \in ReservedIntervals(isV4) : Meets(lo, hi, t[1], t[2])

\* the address ip lies in a block of the reserved table
InReservedTable(ip, isV4) ==
    LET a == SetBytes(ip)
    IN  \E t \in ReservedIntervals(isV4) : Meets(a, a, t[1], t[2])

\* the elements of a sequence
Range(s) == { s[i] : i \in DOMAIN s }

\* s lists some elements of t in the order t has them, each position of t
\* used at most once
IsSubsequence(s, t) ==
    \E f \in [DOMAIN s -> DOMAIN t] :
        /\ \A i \in DOMAIN s : s[i] = t[f[i]]
        /\ \A i, j \in DOMAIN s : i < j => f[i] < f[j]

NoRepeats(s) == \A i, j \in DOMAIN s : i # j => s[i] # s[j]

(***************************************************************************)
(* Properties of generateConfigs.                                          *)
(***************************************************************************)
\* C1: once the non-mainland lists are merged, no CIDR of either list
\* holds an address of an input range labelled mainland China.
NoMainlandLeak ==
    pc = "output" =>
        /\ \A i \in DOMAIN ipv4CIDRs : \A j \in DOMAIN ipv4Ranges :
               ipv4Ranges[j].Info = InfoMainland =>
                   ~CIDRMeetsRange(ipv4CIDRs[i], ipv4Ranges[j])
        /\ \A i \in DOMAIN ipv6CIDRs : \A j \in DOMAIN ipv6Ranges :
               ipv6Ranges[j].Info = InfoMainland =>
                   ~CIDRMeetsRange(ipv6CIDRs[i], ipv6Ranges[j])

\* a merged list with a CIDR ending right below a mainland range
NoMainlandLeakWitness ==
    /\ pc = "output"
    /\ \E i \in DOMAIN ipv4CIDRs : \E j \in DOMAIN ipv4Ranges :
           /\ ipv4Ranges[j].Info = InfoMainland
           /\ Plus(BlockHi(ipv4CIDRs[i]), 1) = SetBytes(ipv4Ranges[j].StartIP)

\* C4 as stated: no CIDR of the non-mainland lists or of the mainland
\* lists holds an address of the reserved table.
ReservedNeverEmitted ==
    pc = "output" =>
        /\ \A c \in Range(ipv4CIDRs) \cup Range(chinaCIDRs[1]) :
               ~CIDRMeetsReserved(c, TRUE)
        /\ \A c \in Range(ipv6CIDRs) \cup Range(chinaCIDRs[2]) :
               ~CIDRMeetsReserved(c, FALSE)

\* C7: FilterRanges puts every range in at most one of its two lists;
\* neither list repeats a range and each lists input ranges in input order.
ExactlyOneBucket ==
    /\ "IPv4" \in filterDone =>
           /\ Range(filteredIPv4) \cap Range(chinaIPv4) = {}
           /\ NoRepeats(filteredIPv4) /\ NoRepeats(chinaIPv4)
           /\ IsSubsequence(filteredIPv4, ipv4Ranges)
           /\ IsSubsequence(chinaIPv4, ipv4Ranges)
    /\ "IPv6" \in filterDone =>
           /\ Range(filteredIPv6) \cap Range(chinaIPv6) = {}
           /\ NoRepeats(filteredIPv6) /\ NoRepeats(chinaIPv6)
           /\ IsSubsequence(filteredIPv6, ipv6Ranges)
           /\ IsSubsequence(chinaIPv6, ipv6Ranges)

\* a filtered IPv4 list with a range in each bucket
ExactlyOneBucketWitness ==
    /\ "IPv4" \in filterDone
    /\ filteredIPv4 # <<>> /\ chinaIPv4 # <<>>
    /\ Len(ipv4Ranges) > Len(filteredIPv4) + Len(chinaIPv4)

(***************************************************************************)
(* Properties of the classifier.                                           *)
(***************************************************************************)
\* how many ranges of the list satisfy P
Count(ranges, P(_)) == Cardinality({ i \in DOMAIN ranges : P(ranges[i]) })

ReservedStart(r) == InReservedTable(r.StartIP, r.Type = "IPv4")

KeptRegion(r) == r.Info \in HongKongInfos \cup MacaoInfos \cup TaiwanInfos

\* the three counters follow the priority Hong Kong, Macao, Taiwan
RegionCounters(ranges, stats) ==
    /\ stats.HongKongKept = Count(ranges, LAMBDA r : r.Info \in HongKongInfos)
    /\ stats.MacaoKept = Count(ranges, LAMBDA r : r.Info \in MacaoInfos)
    /\ stats.TaiwanKept = Count(ranges, LAMBDA r : r.Info \in TaiwanInfos)

\* a Hong Kong, Macao or Taiwan range whose first address is not reserved
\* is in the non-mainland list and not in the mainland list
RegionsKept(ranges, filtered, china) ==
    \A r \in Range(ranges) :
        KeptRegion(r) /\ ~ReservedStart(r) =>
            r \in Range(filtered) /\ r \notin Range(china)

\* C8 as stated: Hong Kong, Macao and Taiwan ranges with an unreserved
\* first address are kept and counted by priority, and every range of
\* China with none of the region names is in the mainland list only.
RegionsKeptAsStated ==
    /\ "IPv4" \in filterDone =>
           /\ RegionsKept(ipv4Ranges, filteredIPv4, chinaIPv4)
           /\ RegionCounters(ipv4Ranges, statsIPv4)
           /\ \A r \in Range(ipv4Ranges) :
                  r.Info \in MainlandInfos =>
                      r \in Range(chinaIPv4) /\ r \notin Range(filteredIPv4)
    /\ "IPv6" \in filterDone =>
           /\ RegionsKept(ipv6Ranges, filteredIPv6, chinaIPv6)
           /\ RegionCounters(ipv6Ranges, statsIPv6)
           /\ \A r \in Range(ipv6Ranges) :
                  r.Info \in MainlandInfos =>
                      r \in Range(chinaIPv6) /\ r \notin Range(filteredIPv6)

\* C8, amended: as above, but a range of China with none of the region
\* names is in the mainland list only when its first address is not
\* reserved, and in neither list when it is.
RegionsKeptMainlandUnreserved ==
    /\ "IPv4" \in filterDone =>
           /\ RegionsKept(ipv4Ranges, filteredIPv4, chinaIPv4)
           /\ RegionCounters(ipv4Ranges, statsIPv4)
           /\ \A r \in Range(ipv4Ranges) :
                  r.Info \in MainlandInfos =>
                      /\ r \in Range(chinaIPv4) <=> ~ReservedStart(r)
                      /\ r \notin Range(filteredIPv4)
    /\ "IPv6" \in filterDone =>
           /\ RegionsKept(ipv6Ranges, filteredIPv6, chinaIPv6)
           /\ RegionCounters(ipv6Ranges, statsIPv6)
           /\ \A r \in Range(ipv6Ranges) :
                  r.Info \in MainlandInfos =>
                      /\ r \in Range(chinaIPv6) <=> ~ReservedStart(r)
                      /\ r \notin Range(filteredIPv6)

\* a filtered list holding a range whose region names both Macao and Hong
\* Kong, counted as Hong Kong, next to a mainland range
RegionsKeptWitness ==
    /\ "IPv4" \in filterDone
    /\ \E r \in Range(filteredIPv4) : r.Info = <<StrChina, StrMacau \o Space \o StrHongKong>>
    /\ \E r \in Range(chinaIPv4) : r.Info \in MainlandInfos
    /\ statsIPv4.HongKongKept = 1 /\ statsIPv4.MacaoKept = 0

\* the list [8.0.0.0/7]
EightSlashSeven(cidrs) ==
    /\ Len(cidrs) = 1
    /\ cidrs[1].Network = TableBlock(<<8, 0, 0, 0>>, 7).Network

\* the ranges with a reserved first address are in neither list; the
\* mainland ones among them count as ChinaFiltered like every mainland
\* range, each other one adds one to PrivateFiltered
Overridden(ranges, filtered, china, stats) ==
    /\ \A r \in Range(ranges) :
           ReservedStart(r) => r \notin Range(filtered) /\ r \notin Range(china)
    /\ stats.ChinaFiltered = Count(ranges, LAMBDA r : r.Info \in MainlandInfos)
    /\ stats.PrivateFiltered =
           Count(ranges, LAMBDA r : r.Info \notin MainlandInfos /\ ReservedStart(r))

\* C9: a range whose first address is in the reserved table is in neither
\* list whatever its label; mainland ones are still counted in
\* ChinaFiltered, the others add one each to PrivateFiltered; the leaves
\* 8.0.0.0/8, 9.0.0.0/8, 10.0.0.0/8 labelled USA give [8.0.0.0/7] with
\* PrivateFiltered = 1.
ReservedOverride ==
    /\ "IPv4" \in filterDone =>
           Overridden(ipv4Ranges, filteredIPv4, chinaIPv4, statsIPv4)
    /\ "IPv6" \in filterDone =>
           Overridden(ipv6Ranges, filteredIPv6, chinaIPv6, statsIPv6)
    /\ pc = "output" /\ ipv4Ranges = ThreeEights =>
           EightSlashSeven(ipv4CIDRs) /\ statsIPv4.PrivateFiltered = 1

\* the run over the three leaves labelled USA, merged
ReservedOverrideWitness ==
    /\ pc = "output" /\ ipv4Ranges = ThreeEights
    /\ Len(filteredIPv4) = 2 /\ ipv4CIDRs # <<>>

(***************************************************************************)
(* Properties of the aggregators and mergers.                              *)
(***************************************************************************)
\* every CIDR starts above the end of the one before it
Ascending(cidrs) ==
    \A i \in 1..(Len(cidrs) - 1) :
        BigCmp(BlockLo(cidrs[i + 1]), BlockHi(cidrs[i])) > 0

\* C5: the CIDR list of rustStyleAggregateAndNormalize and the CIDR list
\* of MergeCIDRs are strictly ascending and their CIDRs pairwise disjoint,
\* whatever the order of the ranges handed in.
SortedDisjoint == Ascending(aggCIDRs) /\ Ascending(simpleCIDRs)

\* both lists merged, from ranges handed in out of order, three CIDRs or
\* more in each
SortedDisjointWitness ==
    /\ pc = "merged"
    /\ Len(aggGiven) >= 2 /\ compareIPs(aggGiven[1].StartIP, aggGiven[2].StartIP) > 0
    /\ Len(aggCIDRs) >= 3 /\ Len(simpleCIDRs) >= 3

\* the address p is in one of the intervals
Covered(intervals, p) ==
    \E i \in DOMAIN intervals :
        BigCmp(intervals[i].First, p) <= 0 /\ BigCmp(p, intervals[i].Last) <= 0

\* every address of o is in one of the intervals: its first address is,
\* and so is the address after each interval that ends inside o
AllCovered(intervals, o) ==
    /\ Covered(intervals, o.First)
    /\ \A i \in DOMAIN intervals :
           BigCmp(o.First, intervals[i].Last) <= 0 /\ BigCmp(intervals[i].Last, o.Last) < 0
               => Covered(intervals, Plus(intervals[i].Last, 1))

Inside(r, o) == BigCmp(o.First, r.First) <= 0 /\ BigCmp(r.Last, o.Last) <= 0

\* out lists the maximal intervals of the union of the intervals in
MaximalIntervals(in, out) ==
    /\ \A i \in DOMAIN in : \E k \in DOMAIN out : Inside(in[i], out[k])
    /\ \A k \in DOMAIN out : AllCovered(in, out[k])
    /\ \A i, j \in DOMAIN in :
           BigCmp(in[j].First, Plus(in[i].Last, 1)) <= 0
           /\ BigCmp(in[i].First, Plus(in[j].Last, 1)) <= 0
               => \E k \in DOMAIN out : Inside(in[i], out[k]) /\ Inside(in[j], out[k])
    /\ \A k \in 1..(Len(out) - 1) :
           BigCmp(out[k + 1].First, Plus(out[k].Last, 1)) > 0

\* the ranges (1.0.0.0, 1.0.0.255), (1.0.1.0, 1.0.1.255), (1.0.3.0, 1.0.3.255)
ThreeBlocks == <<AggV4Ranges[3], AggV4Ranges[5], AggV4Ranges[6]>>

ThreeBlocksAggregated ==
    << DecimalRange(SetBytes(<<1, 0, 0, 0>>), SetBytes(<<1, 0, 1, 255>>), TRUE),
       DecimalRange(SetBytes(<<1, 0, 3, 0>>), SetBytes(<<1, 0, 3, 255>>), TRUE) >>

\* max(c, 1) - 1 <= hi exactly when c <= hi + 1
SaturatingTestAgrees(c, hi) ==
    LET one == NewInt(1)
        maxFirst == IF BigCmp(c, one) < 0 THEN one ELSE c
    IN  BigCmp(BigSub(maxFirst, one), hi) <= 0 <=> BigCmp(c, Plus(hi, 1)) <= 0

\* C6 as stated: for every list of ranges, rustStyleAggregated and
\* simpleAggregateDecimalRanges return the maximal intervals of the union
\* of the ranges: the same addresses are covered, touching or overlapping
\* ranges end in one interval, consecutive intervals leave an address
\* uncovered between them; the three blocks of the example give two
\* intervals; the saturating test agrees with c <= hi + 1.
AggregatorContract ==
    LET in == [i \in DOMAIN aggGiven |-> AsDecimal(aggGiven[i])]
    IN  /\ "rustStyleAggregated" \in aggDone => MaximalIntervals(in, aggOut)
        /\ "simpleAggregateDecimalRanges" \in aggDone => MaximalIntervals(in, simpleOut)
        /\ "rustStyleAggregated" \in aggDone /\ aggGiven = ThreeBlocks
               => aggOut = ThreeBlocksAggregated
        /\ \A i, j \in DOMAIN in : SaturatingTestAgrees(in[i].First, in[j].Last)

\* the same, for the lists in which no range ends in ::ffff:0:0/96
AggregatorContractUnmapped ==
    (\A i \in DOMAIN aggGiven : To4(aggGiven[i].EndIP) = <<>> \/ aggV4) => AggregatorContract

(***************************************************************************)
(* Properties of the extractor.                                            *)
(***************************************************************************)
\* the bits of an address, first bit first
AddressBits(ip) == PathOf(ip, 8 * Len(ip))

\* the pointer found by following the bits i..j of path from node, by
\* halving the stretch; -1 when the path runs into a leaf or an absent
\* child before its end
RECURSIVE Walk(_, _, _, _)
Walk(node, path, i, j) ==
    IF i > j THEN node
    ELSE IF i = j
    THEN IF node < 0 \/ node >= nodeCount THEN -1
         ELSE LET next == nodes[node + 1][path[i] + 1]
              IN  IF next = 0 THEN -1 ELSE next
    ELSE LET mid  == (i + j) \div 2
             half == Walk(node, path, i, mid)
         IN  IF half < 0 THEN -1 ELSE Walk(half, path, mid + 1, j)

\* the labels of the database as fields
LabelInfos == << <<StrChina, StrBeijing>>, <<StrUSA>>, <<StrCN, StrHongKong>> >>

\* r is the block of a path that leads from root to a leaf: the prefix
\* length is the length of the path, the first address is the path padded
\* with zeros, the last address the path padded with ones
LeafBlock(r, root) ==
    LET n     == r.CIDR.PrefixLen
        first == AddressBits(r.StartIP)
        last  == AddressBits(r.EndIP)
        leaf  == Walk(root, first, 1, n)
    IN  /\ r.CIDR.IP = r.StartIP
        /\ \A k \in 1..Len(first) :
               /\ k <= n => last[k] = first[k]
               /\ k > n => first[k] = 0 /\ last[k] = 1
        /\ \E k \in 1..NumLabels : leaf = LeafPointer(k) /\ r.Info = LabelInfos[k]

\* each range starts above the end of the one before it
AscendingRanges(ranges) ==
    \A i \in 1..(Len(ranges) - 1) :
        BigCmp(SetBytes(ranges[i + 1].StartIP), SetBytes(ranges[i].EndIP)) > 0

\* C10: both sequences returned by ExtractAllRanges are strictly
\* ascending by first address with pairwise disjoint ranges, and every
\* range is the prefix block of the bit path of a leaf.
ExtractorOrder ==
    pc = "extracted" =>
        /\ AscendingRanges(ipv4Ranges) /\ AscendingRanges(ipv6Ranges)
        /\ \A i \in DOMAIN ipv4Ranges : LeafBlock(ipv4Ranges[i], v4offset)
        /\ \A i \in DOMAIN ipv6Ranges : LeafBlock(ipv6Ranges[i], 0)

\* an extraction that returned three ranges or more of each family
ExtractorOrderWitness ==
    /\ pc = "extracted"
    /\ Len(ipv4Ranges) >= 3 /\ Len(ipv6Ranges) >= 3


(***************************************************************************)
(* The leaves of a database, read off the node table.                      *)
(***************************************************************************)
\* the first k bits of the path from node 0 to the IPv4 root
SpineBits(k) == [i \in 1..k |-> IF i <= 80 THEN 0 ELSE 1]

\* the paths that leave the path to the IPv4 root and go on for at most
\* three bits: no database of NodeTables has a node anywhere else
TailBits == UNION { [1..m -> {0, 1}] : m \in 0..3 }

\* the paths from node 0 that end in one of the pointers: a stretch of
\* the path to the IPv4 root, then a tail
PointerPaths(pointers) ==
    UNION { LET spine == Walk(0, SpineBits(k), 1, k)
            IN  IF spine < 0 THEN {}
                ELSE { SpineBits(k) \o t :
                         t \in { u \in TailBits : Walk(spine, u, 1, Len(u)) \in pointers } } :
            k \in 0..V4Root }

\* the paths from node 0 that end in a pointer to a label
LeafPaths == PointerPaths(LeafPointers)

\* the path starts with 80 zeros and 16 ones
MappedBits(path) == Len(path) >= 96 /\ SubSeq(path, 1, 96) = SpineBits(96)

\* the indexes of the ranges that are the block of path
BlocksOf(ranges, path) ==
    { i \in DOMAIN ranges :
        /\ ranges[i].CIDR.PrefixLen = Len(path)
        /\ SubSeq(AddressBits(ranges[i].StartIP), 1, Len(path)) = path }

\* C11: the IPv6 sequence holds no range of 96 bits or more below the
\* IPv4-mapped prefix; when the database holds IPv6, every leaf reachable
\* from node 0 by a path that does not start with that prefix is in the
\* IPv6 sequence exactly once; the leaves below the prefix are in the IPv4
\* sequence (exactly once when the database holds IPv4) and not in the
\* IPv6 sequence.
MappedNeverDuplicated ==
    pc = "extracted" =>
        /\ \A i \in DOMAIN ipv6Ranges :
               ~MappedBits(SubSeq(AddressBits(ipv6Ranges[i].StartIP), 1,
                                  ipv6Ranges[i].CIDR.PrefixLen))
        /\ \A path \in LeafPaths :
               IF MappedBits(path)
               THEN /\ BlocksOf(ipv6Ranges, path) = {}
                    /\ ipVersion % 2 = 1 =>
                           Cardinality(BlocksOf(ipv4Ranges, SubSeq(path, 97, Len(path)))) = 1
               ELSE (ipVersion \div 2) % 2 = 1 =>
                        Cardinality(BlocksOf(ipv6Ranges, path)) = 1

\* an extraction of both families from a database with leaves below the
\* IPv4 root and a leaf hanging off the last node before it
MappedNeverDuplicatedWitness ==
    /\ pc = "extracted" /\ ipVersion = 3
    /\ \E path \in LeafPaths : MappedBits(path) /\ Len(path) > 96
    /\ \E path \in LeafPaths : Len(path) = 96 /\ ~MappedBits(path)
    /\ Len(ipv4Ranges) >= 2 /\ Len(ipv6Ranges) >= 2


\* the traversals reach a leaf pointer that does not resolve: below the
\* IPv4 root when the database holds IPv4, off the IPv4-mapped prefix when
\* it holds IPv6
UnresolvedReached ==
    \E path \in PointerPaths({Dangling}) :
        IF MappedBits(path) THEN ipVersion % 2 = 1 ELSE (ipVersion \div 2) % 2 = 1

\* C12: when a leaf reached by the walk has a pointer that resolves outside
\* the data, ExtractAllRanges returns an error and no range at all.
ExtractionAllOrNothing ==
    pc = "extracted" /\ UnresolvedReached =>
        extractErr /\ ipv4Ranges = <<>> /\ ipv6Ranges = <<>>


(***************************************************************************)
(* Properties of FilterRangesParallel.                                     *)
(***************************************************************************)
\* C13: the two lists returned by FilterRangesParallel are the lists
\* FilterRanges returns on the same input, as sequences, whatever the
\* order in which the workers finish.
ParallelKeepsOrder ==
    pc = "returned" =>
        /\ allFiltered = FilterRanges(parIn).filtered
        /\ allChinaRanges = FilterRanges(parIn).chinaRanges

\* how often x occurs in the sequence s
Occurrences(s, x) == Cardinality({ i \in DOMAIN s : s[i] = x })

SameMultiset(s, t) ==
    /\ Len(s) = Len(t)
    /\ \A x \in Range(s) : Occurrences(s, x) = Occurrences(t, x)

\* the chunks are contiguous stretches of the indexes, in order, and each
\* index is in exactly one of them
ChunksPartition(cs, n) ==
    /\ cs # <<>>
    /\ cs[1][1] = 0 /\ cs[Len(cs)][2] = n
    /\ \A i \in DOMAIN cs : cs[i][1] < cs[i][2]
    /\ \A i \in 1..(Len(cs) - 1) : cs[i][2] = cs[i + 1][1]

\* C14: the chunks handed to the workers partition the input into
\* contiguous index ranges, and the counters and the multisets of ranges
\* returned by FilterRangesParallel are those of FilterRanges on the same
\* input.
ParallelLosesNothing ==
    /\ pc = "collect" => ChunksPartition(chunks, Len(parIn))
    /\ pc = "returned" =>
           LET seq == FilterRanges(parIn)
           IN  /\ totalStats = seq.stats
               /\ SameMultiset(allFiltered, seq.filtered)
               /\ SameMultiset(allChinaRanges, seq.chinaRanges)

\* three ranges filtered by two workers, the second worker's result
\* collected first
ParallelLosesNothingWitness ==
    /\ pc = "returned" /\ Len(parIn) = 3 /\ Len(chunks) = 2
    /\ allFiltered # <<>> /\ allChinaRanges # <<>>
    /\ allFiltered # FilterRanges(parIn).filtered


(***************************************************************************)
(* Scenarios.                                                              *)
(***************************************************************************)
\* the CIDR ip/n as createCIDRFromDecimalRange returns it, last being its
\* last address
Block(ip, n, last) ==
    [Network |-> TableBlock(ip, n).Network, StartIP |-> ip, EndIP |-> last]

\* the IPv4 interval [192.0.2.5, 192.0.2.10] was normalized
NormalizedS3 ==
    /\ pc = "normalized" /\ normV4
    /\ normIn = << DecimalRange(SetBytes(<<192, 0, 2, 5>>),
                                SetBytes(<<192, 0, 2, 10>>), TRUE) >>

\* C15 as stated: the IPv4 interval [192.0.2.5, 192.0.2.10] is normalized
\* to [192.0.2.5/32, 192.0.2.6/31, 192.0.2.8/30].
ScenarioS3AsStated ==
    NormalizedS3 =>
        normOut = << Block(<<192, 0, 2, 5>>, 32, <<192, 0, 2, 5>>),
                     Block(<<192, 0, 2, 6>>, 31, <<192, 0, 2, 7>>),
                     Block(<<192, 0, 2, 8>>, 30, <<192, 0, 2, 11>>) >>

\* C15, amended: the IPv4 interval [192.0.2.5, 192.0.2.10] is normalized
\* to [192.0.2.5/32, 192.0.2.6/31, 192.0.2.8/31, 192.0.2.10/32]; the
\* block 192.0.2.8/30 would reach 192.0.2.11, past the interval.
ScenarioS3 ==
    NormalizedS3 =>
        normOut = << Block(<<192, 0, 2, 5>>, 32, <<192, 0, 2, 5>>),
                     Block(<<192, 0, 2, 6>>, 31, <<192, 0, 2, 7>>),
                     Block(<<192, 0, 2, 8>>, 31, <<192, 0, 2, 9>>),
                     Block(<<192, 0, 2, 10>>, 32, <<192, 0, 2, 10>>) >>

\* the interval of the scenario normalized to four CIDRs
ScenarioS3Witness == NormalizedS3 /\ Len(normOut) = 4


\* the IPv4 database is the single leaf 0.0.0.0/0, labelled USA
WholeSpaceLeafIn == ipv4Ranges = << LeafRange(<<>>, TRUE, InfoUSA) >>

\* C16: an IPv4 trie that is the single leaf 0.0.0.0/0 with a label
\* classified Other gives the non-mainland IPv4 list [0.0.0.0/0].
WholeSpaceLeaf ==
    pc = "output" /\ WholeSpaceLeafIn =>
        ipv4CIDRs = << Block(<<0, 0, 0, 0>>, 0, <<255, 255, 255, 255>>) >>

\* the normalizer's half of C16: the interval [0, 2^W - 1] gives the
\* single CIDR /0
WholeSpaceInterval ==
    /\ pc = "normalized"
    /\ normIn[1].First = NewInt(0)
    /\ normIn[1].Last = SetBytes(IF normV4 THEN V4Max ELSE V6Max)
    => normOut = << Block(Zeros(IF normV4 THEN 4 ELSE 16), 0,
                          IF normV4 THEN V4Max ELSE V6Max) >>


(***************************************************************************)
(* Re-aggregation.                                                         *)
(***************************************************************************)
\* the intervals of a CIDR list aggregated, as MergeCIDRs does it
ReAggregated(cidrs) ==
    simpleAggregateDecimalRanges(
        [i \in DOMAIN cidrs |->
            DecimalRange(ipToDecimal(cidrs[i].StartIP), ipToDecimal(cidrs[i].EndIP),
                         isIPv4(cidrs[i].StartIP))])

\* aggregating the list again, and aggregating its normal form, give the
\* list back
StableList(a, isV4) ==
    /\ simpleAggregateDecimalRanges(a) = a
    /\ a # <<>> => ReAggregated(rustStyleNormalized(a, isV4)) = a

\* C17: a list returned by an aggregator is returned unchanged when it is
\* aggregated again, and when its intervals are normalized into CIDRs and
\* the intervals of those CIDRs are aggregated; MergeCIDRs returns its own
\* output unchanged.
ReAggregationStable ==
    pc = "merged" =>
        /\ StableList(aggOut, aggV4)
        /\ StableList(simpleOut, aggV4)
        /\ MergeCIDRs(simpleCIDRs) = simpleCIDRs
        /\ MergeCIDRs(aggCIDRs) = aggCIDRs

\* the same, for the lists in which no range ends in ::ffff:0:0/96
ReAggregationStableUnmapped ==
    (\A i \in DOMAIN aggGiven : To4(aggGiven[i].EndIP) = <<>> \/ aggV4) => ReAggregationStable


(***************************************************************************)
(* The counters of FilterStats.                                            *)
(***************************************************************************)
SixCounters(stats) ==
    stats.ChinaFiltered + stats.HongKongKept + stats.MacaoKept
    + stats.TaiwanKept + stats.PrivateFiltered + stats.OtherKept

\* C18: each range adds one to exactly one of ChinaFiltered, HongKongKept,
\* MacaoKept, TaiwanKept, PrivateFiltered and OtherKept, so the six
\* counters sum to TotalRanges.
DisjointBucketCounts ==
    /\ "IPv4" \in filterDone =>
           /\ statsIPv4.TotalRanges = Len(ipv4Ranges)
           /\ SixCounters(statsIPv4) = statsIPv4.TotalRanges
    /\ "IPv6" \in filterDone =>
           /\ statsIPv6.TotalRanges = Len(ipv6Ranges)
           /\ SixCounters(statsIPv6) = statsIPv6.TotalRanges

\* what the counters do sum to: every range that is not mainland and has
\* a reserved first address is counted twice
BucketCountsWithOverlap ==
    /\ "IPv4" \in filterDone =>
           SixCounters(statsIPv4) = statsIPv4.TotalRanges + statsIPv4.PrivateFiltered
    /\ "IPv6" \in filterDone =>
           SixCounters(statsIPv6) = statsIPv6.TotalRanges + statsIPv6.PrivateFiltered


(***************************************************************************)
(* The pointers of the trie.                                               *)
(***************************************************************************)
\* the ranges a sequence holds for a path from node 0: the IPv4 sequence
\* holds the blocks of the paths below the IPv4 root, the IPv6 sequence
\* those of the other paths
RangesOfPath(path) ==
    IF MappedBits(path)
    THEN IF ipVersion % 2 = 1
         THEN BlocksOf(ipv4Ranges, SubSeq(path, 97, Len(path))) ELSE {}
    ELSE IF (ipVersion \div 2) % 2 = 1 THEN BlocksOf(ipv6Ranges, path) ELSE {}

\* the family of the path is one the database holds
Walked(path) ==
    IF MappedBits(path) THEN ipVersion % 2 = 1 ELSE (ipVersion \div 2) % 2 = 1

\* C19: a child pointer equal to node_count is absent and contributes no
\* range; a pointer above node_count is resolved as a leaf and contributes
\* the range of its path.
PointerInterpretation ==
    pc = "extracted" =>
        /\ \A path \in PointerPaths({nodeCount}) : RangesOfPath(path) = {}
        /\ \A path \in PointerPaths(LeafPointers \ {nodeCount}) :
               Walked(path) => Cardinality(RangesOfPath(path)) = 1

\* what the traversals do: a pointer equal to node_count is resolved as a
\* leaf like the pointers above it
PointerAtNodeCountIsLeaf ==
    pc = "extracted" =>
        \A path \in PointerPaths(LeafPointers) :
            Walked(path) => Cardinality(RangesOfPath(path)) = 1


(***************************************************************************)
(* The exit code of a generate run.                                        *)
(***************************************************************************)
\* the output files of the run: the two routing rule files, and the
\* mainland route file of each family that has mainland routes
FilesOfRun ==
    {"bird_v4.conf", "bird_v6.conf"}
    \cup (IF chinaCIDRs[1] # <<>> THEN {"chnroute-ipv4.txt"} ELSE {})
    \cup (IF chinaCIDRs[2] # <<>> THEN {"chnroute-ipv6.txt"} ELSE {})

\* C20: when the run has ended, its exit code is 0 only when every output
\* file of the run was written, and 1 when the write of one of them failed.
EmitFailureExitsOne ==
    pc = "exited" => (exitCode = 0 <=> FilesOfRun \subseteq files)

\* what the code does: the exit code tells of the two routing rule files
\* and of the output directory, not of the mainland route files
ExitCodeOfRuleFiles ==
    pc = "exited" =>
        (exitCode = 0 <=> {"bird_v4.conf", "bird_v6.conf"} \subseteq files)

(***************************************************************************)
(* The two families of an output kind.                                     *)
(***************************************************************************)
\* the routing rule files: each goroutine writes its file whatever the
\* other does, and a rejected write is in outputErrors
RuleFilesIndependent ==
    (pc = "exited" /\ dirExists) =>
        /\ WriteFile("bird_v4.conf") => "bird_v4.conf" \in files
        /\ WriteFile("bird_v6.conf") => "bird_v6.conf" \in files
        /\ ~WriteFile("bird_v4.conf") =>
               \E i \in DOMAIN outputErrors : outputErrors[i] = "IPv4"
        /\ ~WriteFile("bird_v6.conf") =>
               \E i \in DOMAIN outputErrors : outputErrors[i] = "IPv6"

\* the mainland route files: once SaveChinaRoutes has returned, the file
\* of a family that has routes and whose write is not rejected is there
RouteFilesIndependent ==
    pc \in {"merge", "output"} =>
        /\ (chinaCIDRs[1] # <<>> /\ WriteFile("chnroute-ipv4.txt"))
               => "chnroute-ipv4.txt" \in files
        /\ (chinaCIDRs[2] # <<>> /\ WriteFile("chnroute-ipv6.txt"))
               => "chnroute-ipv6.txt" \in files

\* C21: the failure of the file of one family does not keep the file of
\* the other family of that kind from being written, for the routing rule
\* files and for the mainland route files, and every failure of a routing
\* rule file is collected.
FamiliesFailIndependently == RuleFilesIndependent /\ RouteFilesIndependent

(***************************************************************************)
(* The output directory.                                                   *)
(***************************************************************************)
\* C22: the output directory is made before the first file is written:
\* a run that ends with code 0 on a file system that rejects no file
\* leaves the directory with every output file of the run in it.
OutputDirectoryFirst ==
    (pc = "exited" /\ exitCode = 0 /\ failing = {}) =>
        dirExists /\ FilesOfRun \subseteq files

\* what the code does: the directory is made after SaveChinaRoutes and
\* before the routing rule files
OutputDirectoryBeforeRuleFiles ==
    (pc = "exited" /\ exitCode = 0 /\ failing = {}) =>
        dirExists /\ {"bird_v4.conf", "bird_v6.conf"} \subseteq files

(***************************************************************************)
(* The validate mode.                                                      *)
(***************************************************************************)
Violations(v) == v.ChinaMainlandFound + v.PrivateAddressFound

\* C23: when validateConfigs has ended, a file in which a sampled address
\* was found to be mainland or private or reserved is reported as failed
\* and the exit code is 1; a file reported as passed has no such address.
ValidateDetects ==
    pc = "validated" =>
        \A i \in DOMAIN valResults :
            /\ Violations(valResults[i]) > 0 => ~valPassed[i] /\ exitCode = 1
            /\ valPassed[i] => Violations(valResults[i]) = 0

\* what the code does: a file fails when it is missing or unreadable,
\* when it has no CIDR entry and when the database does not load,
\* whatever the validator counted
ValidateIgnoresCounters ==
    pc = "validated" =>
        /\ \A i \in DOMAIN valResults :
               valPassed[i] <=> /\ valDb = "ok" /\ valFiles[i].readable
                                /\ valFiles[i].cidrs # <<>>
        /\ exitCode = 0 <=> /\ valDb # "missing" /\ valFiles # <<>>
                            /\ \A i \in DOMAIN valFiles : valPassed[i]

(***************************************************************************)
(* The pairwise merger.                                                    *)
(***************************************************************************)
\* the leading bits that name a block
BlockBits(c) ==
    SubSeq(AddressBits(c.Network.IP), 1, MaskOnes(c.Network.Mask))

\* the block named by bits lies in the union of the blocks: one of them
\* holds it, or both of its halves lie in the union
RECURSIVE InUnion(_, _)
InUnion(bits, blocks) ==
    \/ \E b \in blocks : IsPrefix(b, bits)
    \/ /\ \E b \in blocks : IsPrefix(bits, b) /\ b # bits
       /\ InUnion(Append(bits, 0), blocks)
       /\ InUnion(Append(bits, 1), blocks)

\* the minimum-cardinality set of blocks with the same union: the blocks
\* in the union whose parent is not in it
FewestBlocks(blocks) ==
    { bits \in UNION { { SubSeq(b, 1, n) : n \in 0..Len(b) } : b \in blocks } :
        /\ InUnion(bits, blocks)
        /\ bits # <<>> => ~InUnion(SubSeq(bits, 1, Len(bits) - 1), blocks) }

BitsOfBlocks(cidrs) == { BlockBits(cidrs[i]) : i \in DOMAIN cidrs }

\* two blocks of the list are the two halves of one block
MergeablePair(cidrs) ==
    \E i, j \in DOMAIN cidrs :
        LET a == BlockBits(cidrs[i])
            b == BlockBits(cidrs[j])
        IN  /\ i # j /\ Len(a) = Len(b) /\ Len(a) > 0
            /\ SubSeq(a, 1, Len(a) - 1) = SubSeq(b, 1, Len(b) - 1)

\* C24: the list MergeCIDRs returns for pairwise disjoint blocks is the
\* minimum-cardinality set of blocks with the union of the blocks handed
\* in, and no two blocks of it can still be merged.
PairwiseMinimal ==
    pc = "pairMerged" =>
        /\ BitsOfBlocks(pairOut) = FewestBlocks(BitsOfBlocks(pairIn))
        /\ Len(pairOut) = Cardinality(FewestBlocks(BitsOfBlocks(pairIn)))
        /\ ~MergeablePair(pairOut)

\* what the single pass keeps: the union is the one of the blocks handed
\* in and the blocks returned are ascending and disjoint
PairwiseLossless ==
    pc = "pairMerged" =>
        /\ \A bits \in BitsOfBlocks(pairOut) : InUnion(bits, BitsOfBlocks(pairIn))
        /\ \A bits \in BitsOfBlocks(pairIn) : InUnion(bits, BitsOfBlocks(pairOut))
        /\ Ascending(pairOut)

(***************************************************************************)
(* The gaps of the IPv4 space.                                             *)
(***************************************************************************)
Leq32(a, b) == compareIPs(a, b) <= 0

\* the address a is in one of the ranges
Covered32(ranges, a) ==
    \E i \in DOMAIN ranges : Leq32(ranges[i].Start, a) /\ Leq32(a, ranges[i].End)

\* the maximal intervals of addresses in no range: such an interval
\* starts at 0 or right after a range, ends at the top or right before a
\* range, and no range has an address in it
UncoveredIntervals(ranges) ==
    LET starts == {Zeros(4)} \cup
                  { Inc32(ranges[i].End) : i \in { j \in DOMAIN ranges : ranges[j].End # Max32 } }
        ends   == {Max32} \cup
                  { Dec32(ranges[i].Start) : i \in { j \in DOMAIN ranges : ranges[j].Start # Zeros(4) } }
    IN  { g \in [Start : starts, End : ends] :
            /\ Leq32(g.Start, g.End)
            /\ ~Covered32(ranges, g.Start) /\ ~Covered32(ranges, g.End)
            /\ \A i \in DOMAIN ranges :
                   Less32(ranges[i].End, g.Start) \/ Less32(g.End, ranges[i].Start) }

GapsExact ==
    /\ Range(gapOut) = UncoveredIntervals(gapIn)
    /\ Len(gapOut) = Cardinality(UncoveredIntervals(gapIn))
    /\ exitCode = IF UncoveredIntervals(gapIn) = {} THEN 0 ELSE 1

\* C25: findIPv4Gaps returns exactly the maximal intervals of addresses
\* that no range covers, each once, and the tool exits with code 0 when
\* there is none and with code 1 otherwise.
CoverageGapsExact == pc = "covered" => GapsExact

\* a range that ends at 255.255.255.255 comes before another range in the
\* order of first addresses
TopRangeFollowed(ranges) ==
    \E i, j \in DOMAIN ranges :
        /\ ranges[i].End = Max32
        /\ \/ Less32(ranges[i].Start, ranges[j].Start)
           \/ ranges[i].Start = ranges[j].Start /\ i < j
        /\ ranges[j].Start # Zeros(4)

\* what the code gives: the gaps are exact unless a range that ends at
\* the top of the space is followed by another range
CoverageGapsExactBelowTop ==
    (pc = "covered" /\ ~TopRangeFollowed(gapIn)) => GapsExact

(***************************************************************************)
(* The CIDR lists made from the result of FilterRangesParallel.            *)
(***************************************************************************)
\* C26: the non-mainland CIDR list and the mainland CIDR list computed
\* from what FilterRangesParallel returned are the lists computed from
\* what FilterRanges returns for the same ranges, in whatever order the
\* workers have sent their results.
ListsIgnoreScheduling ==
    pc = "returned" =>
        LET seq == FilterRanges(parIn)
        IN  /\ SmartMergeNonChinaCIDRs(parIn, <<>>, allFiltered, <<>>)
                   = SmartMergeNonChinaCIDRs(parIn, <<>>, seq.filtered, <<>>)
            /\ MergeCIDRs(RangesToCIDRs(allChinaRanges))
                   = MergeCIDRs(RangesToCIDRs(seq.chinaRanges))

\* a run whose workers sent their results out of order: the non-mainland
\* ranges collected are not in the order FilterRanges returns them in,
\* and the last of them lies below the first
ListsIgnoreSchedulingWitness ==
    /\ pc = "returned"
    /\ Len(allFiltered) >= 2
    /\ allFiltered # FilterRanges(parIn).filtered
    /\ compareIPs(allFiltered[Len(allFiltered)].StartIP, allFiltered[1].StartIP) < 0
    /\ Len(SmartMergeNonChinaCIDRs(parIn, <<>>, allFiltered, <<>>)[1]) >= 2

(***************************************************************************)
(* The worker pool.                                                        *)
(***************************************************************************)
\* a worker that has not sent yet finds room in the channel
NoSendBlocks ==
    (pc = "collect" /\ pending # {}) => Len(resultChan) < ChanCap(Len(chunks))

\* the ranges counted by the results collected
Counted(stats) ==
    stats.ChinaFiltered + stats.HongKongKept + stats.MacaoKept
        + stats.TaiwanKept + stats.OtherKept

\* at the return every worker has sent, the channel is closed and empty,
\* and the result of every chunk was collected once
ReturnsAfterAll ==
    (pc = "returned" /\ parIn # <<>>) =>
        /\ pending = {} /\ chanClosed /\ resultChan = <<>>
        /\ Len(chunks) = NumWorkers(numCPU, Len(parIn))
        /\ Counted(totalStats) = Len(parIn)

\* C27: under fair scheduling no worker blocks on its send, the channel
\* is closed only after every worker has sent, the collector has received
\* the result of every worker once when FilterRangesParallel returns, and
\* FilterRangesParallel does return.
WorkerPoolTerminates ==
    /\ [](NoSendBlocks /\ (chanClosed => pending = {}) /\ ReturnsAfterAll)
    /\ <>(pc = "returned")

\* a run of three workers has returned
WorkerPoolTerminatesWitness ==
    pc = "returned" /\ Len(chunks) = 3 /\ chanClosed /\ Len(allFiltered) >= 1

(***************************************************************************)
(* The statistics and the lists of FilterRanges.                           *)
(***************************************************************************)
KeptCounters(stats) ==
    stats.HongKongKept + stats.MacaoKept + stats.TaiwanKept + stats.OtherKept

StatsMatchLists(ranges, filtered, china, stats) ==
    /\ stats.TotalRanges = Len(ranges)
    /\ stats.TotalRanges = stats.ChinaFiltered + KeptCounters(stats)
    /\ Len(filtered) = KeptCounters(stats) - stats.PrivateFiltered
    /\ stats.ChinaCIDRsSaved = Len(china)
    /\ Len(china) <= stats.ChinaFiltered

\* C28: after FilterRanges, TotalRanges is the number of ranges handed in
\* and the sum of ChinaFiltered and the four kept counters, the
\* non-mainland list has as many ranges as the four kept counters less
\* PrivateFiltered, and ChinaCIDRsSaved is the length of the mainland
\* list, at most ChinaFiltered.
StatsConsistent ==
    /\ "IPv4" \in filterDone =>
           StatsMatchLists(ipv4Ranges, filteredIPv4, chinaIPv4, statsIPv4)
    /\ "IPv6" \in filterDone =>
           StatsMatchLists(ipv6Ranges, filteredIPv6, chinaIPv6, statsIPv6)

\* the IPv4 ranges were filtered: a reserved range that is not mainland
\* was counted and dropped, and a reserved mainland range was counted and
\* not collected
StatsConsistentWitness ==
    /\ "IPv4" \in filterDone
    /\ statsIPv4.PrivateFiltered >= 1
    /\ KeptCounters(statsIPv4) >= 1
    /\ statsIPv4.ChinaCIDRsSaved < statsIPv4.ChinaFiltered

(***************************************************************************)
(* The mainland rule of the validator and of the classifier.               *)
(***************************************************************************)
\* C29: the validator's isChinaMainland and the classifier's
\* IsMainlandChina agree on the label of every range of the database, so
\* no range kept as non-mainland is reported as mainland by the validator
\* and every range collected as mainland is.
ValidatorAgrees ==
    /\ \A r \in Range(ipv4Ranges) \cup Range(ipv6Ranges) :
           isChinaMainland(r.Info) <=> IsMainlandChina(r.Info)
    /\ \A r \in Range(filteredIPv4) \cup Range(filteredIPv6) :
           ~isChinaMainland(r.Info)
    /\ \A r \in Range(chinaIPv4) \cup Range(chinaIPv6) : isChinaMainland(r.Info)

\* the labels the two rules do agree on: those whose country is written
\* 中国 or China and whose region does not hold Macau
ValidatorAgreesWithoutMacau ==
    \A r \in Range(ipv4Ranges) \cup Range(ipv6Ranges) :
        (countryName(r.Info) # StrCN /\ ~Contains(regionName(r.Info), StrMacau))
            => (isChinaMainland(r.Info) <=> IsMainlandChina(r.Info))

(***************************************************************************)
(* The round trip between an address and its integer.                      *)
(***************************************************************************)
\* the integers of the first and last addresses handed to the aggregators
RoundTripValues ==
    { SetBytes(aggIn[i].StartIP) : i \in DOMAIN aggIn }
        \cup { SetBytes(aggIn[i].EndIP) : i \in DOMAIN aggIn }

\* C30: ipToDecimal(decimalToIP(v, isV4)) = v for every v of the family,
\* the values of ::ffff:0:0/96 included, and so the first address of every
\* range maps to an integer no greater than that of its last address.
ConversionRoundTrips ==
    /\ \A v \in RoundTripValues : ipToDecimal(decimalToIP(v, aggV4)) = v
    /\ \A i \in DOMAIN aggIn :
           BigCmp(ipToDecimal(aggIn[i].StartIP), ipToDecimal(aggIn[i].EndIP)) <= 0

\* the round trip of every value outside ::ffff:0:0/96, where the
\* address still has its 16 bytes when ipToDecimal reads it
ConversionRoundTripsUnmapped ==
    \A v \in RoundTripValues :
        (aggV4 \/ SubSeq(decimalToIP(v, FALSE), 1, 12) # v4InV6Prefix)
            => ipToDecimal(decimalToIP(v, aggV4)) = v

=============================================================================
